---- MODULE Spec2Model ----
(***************************************************************************)
(* Protocol engine of molex-ftp: the command/reply correlator              *)
(* (FTPClient._sendCommand), passive negotiation and the transfer          *)
(* orchestration of lib/commands.js in its two variants (2.1.0: final      *)
(* reply listener with a fallback timer; 2.2.0: raw write of the transfer  *)
(* command and resolution 10 ms after the data socket closes).             *)
(*                                                                         *)
(* A reply line is a tuple of one-character strings; a command is a tuple  *)
(* of the words that the code joins with single spaces.                    *)
(***************************************************************************)
EXTENDS Integers, Sequences, FiniteSets, TLC

\* ---------------------------------------------------------------- bounds
MaxCmd == 3        \* sendCommand invocations per behaviour
MaxCalls == 2      \* sendCommand calls of the caller, correlator alone
MaxXfer == 1       \* transfer invocations per behaviour
MaxLines == 3      \* reply lines the server delivers per behaviour
MaxChunks == 1     \* data chunks counted per transfer (0 = empty payload)
MaxReplyLines == 3 \* terminated lines in the bytes received during connect()
MaxSplit == 2      \* chunks the control socket delivers those bytes in
MaxOverlap == 2    \* transfer invocations of a caller that does not await
MaxOverlapCmd == 4 \* sendCommand invocations of those transfers

\* ------------------------------------------------------------- constants
NaN == -1          \* parseInt() of a non-numeric prefix; every comparison
                   \* the code makes with it (>=, <, ===) is false, as for -1

Digits == <<"0", "1", "2", "3", "4", "5", "6", "7", "8", "9">>

IsDigit(ch) == \E d \in 1..10 : Digits[d] = ch

DigitVal(ch) == (CHOOSE d \in 1..10 : Digits[d] = ch) - 1

\* Number of leading digits of s.
RECURSIVE DigitPrefixLen(_)
DigitPrefixLen(s) ==
  IF s = << >> \/ ~IsDigit(Head(s)) THEN 0 ELSE 1 + DigitPrefixLen(Tail(s))

RECURSIVE DecimalValue(_)
DecimalValue(s) ==
  IF s = << >> THEN 0
  ELSE 10 * DecimalValue(SubSeq(s, 1, Len(s) - 1)) + DigitVal(s[Len(s)])

\* parseInt(str): the value of the longest leading run of digits, NaN if none.
ParseInt(s) ==
  LET n == DigitPrefixLen(s)
  IN  IF n = 0 THEN NaN ELSE DecimalValue(SubSeq(s, 1, n))

Min(a, b) == IF a < b THEN a ELSE b

\* line.substring(from, to) with 0-based, end-exclusive indices.
Substring(s, from, to) == SubSeq(s, Min(from, Len(s)) + 1, Min(to, Len(s)))

\* parseInt(line.substring(0, 3))
ReplyCode(line) == ParseInt(Substring(line, 0, 3))

\* line.substring(4)
ReplyMessage(line) == Substring(line, 4, Len(line))

IsCompleteResponseHyphenToo(line) == Len(line) >= 4

\* line.charAt(3) === ' '
IsCompleteResponse(line) == Len(line) >= 4 /\ line[4] = " "

IsPreliminaryNever(code, allowPreliminary) == FALSE

\* code >= 100 && code < 200 && allowPreliminary
IsPreliminary(code, allowPreliminary) ==
  code >= 100 /\ code < 200 /\ allowPreliminary

IsSuccessNoUpperBound(code) == code >= 200

\* code >= 200 && code < 400
IsSuccess(code) == code >= 200 /\ code < 400

\* command.startsWith('PASS ') ? 'PASS ********' : command
MaskPassword(command) ==
  IF Len(command) >= 2 /\ command[1] = "PASS" THEN <<"PASS", "********">>
  ELSE command

\* /\((\d+),(\d+),(\d+),(\d+),(\d+),(\d+)\)/ : n groups of digits from
\* position i on, separated by commas and closed by a parenthesis.
RECURSIVE MatchGroups(_, _, _)
MatchGroups(msg, i, n) ==
  LET d == DigitPrefixLen(SubSeq(msg, i, Len(msg)))
      j == i + d
  IN  /\ d >= 1
      /\ j <= Len(msg)
      /\ IF n = 1 THEN msg[j] = ")"
         ELSE msg[j] = "," /\ MatchGroups(msg, j + 1, n - 1)

HasPasvGroup(msg) ==
  \E i \in 1..Len(msg) : msg[i] = "(" /\ MatchGroups(msg, i + 1, 6)

\* The position of the leftmost match of the pattern in msg.
PasvMatchAt(msg) ==
  CHOOSE i \in 1..Len(msg) :
    /\ msg[i] = "(" /\ MatchGroups(msg, i + 1, 6)
    /\ \A j \in 1..(i - 1) : ~(msg[j] = "(" /\ MatchGroups(msg, j + 1, 6))

\* The digits of the n-th group counted from position i, a group's start.
RECURSIVE GroupFrom(_, _, _)
GroupFrom(msg, i, n) ==
  LET d == DigitPrefixLen(SubSeq(msg, i, Len(msg)))
  IN  IF n = 1 THEN SubSeq(msg, i, i + d - 1)
      ELSE GroupFrom(msg, i + d + 1, n - 1)

\* match[n]
PasvGroup(msg, n) == GroupFrom(msg, PasvMatchAt(msg) + 1, n)

\* `${match[1]}.${match[2]}.${match[3]}.${match[4]}`
PasvHost(msg) ==
  PasvGroup(msg, 1) \o <<".">> \o PasvGroup(msg, 2) \o <<".">>
    \o PasvGroup(msg, 3) \o <<".">> \o PasvGroup(msg, 4)

PasvPortLowByteFirst(msg) ==
  ParseInt(PasvGroup(msg, 6)) * 256 + ParseInt(PasvGroup(msg, 5))

\* parseInt(match[5]) * 256 + parseInt(match[6])
PasvPort(msg) ==
  ParseInt(PasvGroup(msg, 5)) * 256 + ParseInt(PasvGroup(msg, 6))

\* ---------------------------------------------------------------- framing
CR == "\r"
LF == "\n"

\* s.indexOf('\r\n') searched from position i (1-based), 0 if there is none.
RECURSIVE FirstCRLF(_, _)
FirstCRLF(s, i) ==
  IF i >= Len(s) THEN 0
  ELSE IF s[i] = CR /\ s[i + 1] = LF THEN i
  ELSE FirstCRLF(s, i + 1)

\* s.split('\r\n')
RECURSIVE SplitCRLF(_)
SplitCRLF(s) ==
  LET i == FirstCRLF(s, 1)
  IN  IF i = 0 THEN <<s>>
      ELSE <<SubSeq(s, 1, i - 1)>> \o SplitCRLF(SubSeq(s, i + 2, Len(s)))

\* lines.pop(): the array without its last element, and that element.
Front(seq) == SubSeq(seq, 1, Len(seq) - 1)

Last(seq) == seq[Len(seq)]

\* The elements of a set of numbers in increasing order.
RECURSIVE Ascending(_)
Ascending(set) ==
  IF set = {} THEN << >>
  ELSE LET m == CHOOSE m \in set : \A n \in set : m <= n
       IN  <<m>> \o Ascending(set \ {m})

\* ------------------------------------------------------------------ paths
\* path.replace(/\\/g, '/')
RECURSIVE SlashesForBackslashes(_)
SlashesForBackslashes(path) ==
  IF path = << >> THEN << >>
  ELSE <<IF Head(path) = "\\" THEN "/" ELSE Head(path)>>
         \o SlashesForBackslashes(Tail(path))

\* path.replace(/\/+/g, '/')
RECURSIVE CollapseSlashes(_)
CollapseSlashes(path) ==
  IF Len(path) < 2 THEN path
  ELSE IF path[1] = "/" /\ path[2] = "/" THEN CollapseSlashes(Tail(path))
  ELSE <<Head(path)>> \o CollapseSlashes(Tail(path))

NormalizePath(path) == CollapseSlashes(SlashesForBackslashes(path))

\* s.lastIndexOf(ch): 0-based, -1 if absent.
LastIndexOf(s, ch) ==
  IF \E i \in 1..Len(s) : s[i] = ch
  THEN (CHOOSE i \in 1..Len(s) :
          s[i] = ch /\ \A k \in (i + 1)..Len(s) : s[k] # ch) - 1
  ELSE -1

GetParentDir(filePath) ==
  LET normalized == NormalizePath(filePath)
      lastSlash == LastIndexOf(normalized, "/")
  IN  IF lastSlash <= 0 THEN <<"/">> ELSE Substring(normalized, 0, lastSlash)

ParentDirAlwaysRoot(normalized) == <<"/">>

\* normalized.substring(0, normalized.lastIndexOf('/')) || '/'
ParentDir(normalized) ==
  LET sub == Substring(normalized, 0, LastIndexOf(normalized, "/"))
  IN  IF sub = << >> THEN <<"/">> ELSE sub

\* /\.[^./\\]+$/.test(path)
HasExtension(path) ==
  \E i \in 1..(Len(path) - 1) :
    /\ path[i] = "."
    /\ \A k \in (i + 1)..Len(path) : path[k] \notin {".", "/", "\\"}

\* str.includes(sub)
Includes(str, sub) ==
  \E i \in 1..(Len(str) - Len(sub) + 1) : SubSeq(str, i, i + Len(sub) - 1) = sub

\* ------------------------------------------------------------ listings
\* str.split('\n')
RECURSIVE SplitLF(_, _)
SplitLF(s, line) ==
  IF s = << >> THEN <<line>>
  ELSE IF Head(s) = LF THEN <<line>> \o SplitLF(Tail(s), << >>)
  ELSE SplitLF(Tail(s), Append(line, Head(s)))

IsSpace(ch) == ch \in {" ", CR, LF}

\* str.trim()
RECURSIVE Trim(_)
Trim(s) ==
  IF s = << >> THEN s
  ELSE IF IsSpace(Head(s)) THEN Trim(Tail(s))
  ELSE IF IsSpace(s[Len(s)]) THEN Trim(SubSeq(s, 1, Len(s) - 1))
  ELSE s

\* parts[parts.length - 1] of line.trim().split(/\s+/)
RECURSIVE LastPart(_)
LastPart(s) ==
  LET t == Trim(s)
  IN  IF \E i \in DOMAIN t : IsSpace(t[i])
      THEN LastPart(SubSeq(t, (CHOOSE i \in DOMAIN t : IsSpace(t[i])) + 1,
                           Len(t)))
      ELSE t

\* The lines of a listing that removeDir acts on, as the path it builds for
\* each and whether it takes it for a directory.
RECURSIVE EntriesOf(_, _)
EntriesOf(path, lines) ==
  IF lines = << >> THEN << >>
  ELSE LET line == Head(lines)
           name == LastPart(line)
       IN  IF \/ Trim(line) = << >>
              \/ Includes(line, <<" ", ".">>)
              \/ name = <<".">> \/ name = <<".", ".">>
           THEN EntriesOf(path, Tail(lines))
           ELSE <<[path |-> CollapseSlashes(path \o <<"/">> \o name),
                   isDir |-> Head(line) = "d"]>>
                  \o EntriesOf(path, Tail(lines))

ListingEntries(path, listing) == EntriesOf(path, SplitLF(listing, << >>))

\* ------------------------------------------------------------- the server
\* The names between the slashes of a path, as the server reads it.
RECURSIVE Segments(_, _)
Segments(path, name) ==
  IF path = << >> THEN (IF name = << >> THEN << >> ELSE <<name>>)
  ELSE IF Head(path) = "/"
  THEN (IF name = << >> THEN << >> ELSE <<name>>) \o Segments(Tail(path), << >>)
  ELSE Segments(Tail(path), Append(name, Head(path)))

\* The directory a path names for a session whose working directory is cwd.
ResolvePath(cwd, path) ==
  IF path # << >> /\ Head(path) = "/" THEN Segments(path, << >>)
  ELSE cwd \o Segments(path, << >>)

\* The server's replies to CWD, MKD, DELE and RMD.
L250 == <<"2", "5", "0", " ", "o", "k">>
L257 == <<"2", "5", "7", " ", "o", "k">>
L550exists == <<"5", "5", "0", " ", "e", "x", "i", "s", "t", "s">>
L550denied == <<"5", "5", "0", " ", "d", "e", "n", "i", "e", "d">>
L550nodir == <<"5", "5", "0", " ", "n", "o", "d", "i", "r">>
L550notempty == <<"5", "5", "0", " ", "n", "o", "t", "e", "m", "p", "t", "y">>
L502 == <<"5", "0", "2", " ", "n", "o">>

Root == << >>

DirExists(srv, dir) == dir = Root \/ dir \in srv.dirs

\* The directories and files a directory holds.
EntriesIn(srv, dir) ==
  {e \in srv.dirs \cup srv.files : e # << >> /\ Front(e) = dir}

\* The server executes one command: its state afterwards and its reply.
Execute(srv, command) ==
  LET dir == ResolvePath(srv.cwd, Tail(command))
  IN  CASE command[1] = "CWD" ->
             IF DirExists(srv, dir)
             THEN [server |-> [srv EXCEPT !.cwd = dir], line |-> L250]
             ELSE [server |-> srv, line |-> L550nodir]
        [] command[1] = "MKD" ->
             IF DirExists(srv, dir)
             THEN [server |-> srv, line |-> L550exists]
             ELSE IF ~DirExists(srv, Front(dir))
             THEN [server |-> srv, line |-> L550nodir]
             ELSE IF Front(dir) \in srv.denied
             THEN [server |-> srv, line |-> L550denied]
             ELSE [server |-> [srv EXCEPT !.dirs = @ \cup {dir}],
                   line |-> L257]
        [] command[1] = "DELE" ->
             IF dir \notin srv.files
             THEN [server |-> srv, line |-> L550nodir]
             ELSE IF Front(dir) \in srv.denied
             THEN [server |-> srv, line |-> L550denied]
             ELSE [server |-> [srv EXCEPT !.files = @ \ {dir}],
                   line |-> L250]
        [] command[1] = "RMD" ->
             IF dir \notin srv.dirs
             THEN [server |-> srv, line |-> L550nodir]
             ELSE IF EntriesIn(srv, dir) # {}
             THEN [server |-> srv, line |-> L550notempty]
             ELSE IF Front(dir) \in srv.denied
             THEN [server |-> srv, line |-> L550denied]
             ELSE [server |-> [srv EXCEPT !.dirs = @ \ {dir}],
                   line |-> L250]
        [] OTHER -> [server |-> srv, line |-> L502]

\* ----------------------------------------------------- the server's lines
L150 == <<"1", "5", "0", " ", "g", "o">>
L150h == <<"1", "5", "0", "-", "g", "o">>
L226 == <<"2", "2", "6", " ", "o", "k">>
L226h == <<"2", "2", "6", "-", "o", "k">>
L227 == <<"2", "2", "7", " ", "(", "1", ",", "2", ",", "3", ",", "4", ",",
          "5", ",", "6", ")">>
L550 == <<"5", "5", "0", " ", "n", "o">>
L425 == <<"4", "2", "5", " ", "n", "o">>

ServerLines == {L150, L150h, L226, L226h, L227, L550}

\* Lines that do not start with a three-digit code: with a blank in fourth
\* place, with letters only, with one digit in front.
Labc == <<"a", "b", "c", " ", "n", "o">>
Lnocode == <<"o", "o", "p", "s">>
L2xx == <<"2", "x", "x", " ", "o", "k">>

MalformedLines == {Labc, Lnocode, L2xx}

\* The decimal numeral of n.
RECURSIVE ToDecimal(_)
ToDecimal(n) ==
  IF n < 10 THEN <<Digits[n + 1]>>
  ELSE ToDecimal(n \div 10) \o <<Digits[(n % 10) + 1]>>

\* The six numbers a server announces: each position takes one of two values.
PasvGroups ==
  {[k \in 1..6 |-> IF k \in alt THEN <<192, 168, 1, 20, 4, 255>>[k]
                                 ELSE <<10, 0, 0, 5, 78, 23>>[k]] :
     alt \in SUBSET (1..6)}

\* The message of a 227 reply announcing g: the group alone or within text.
PasvMessage(worded, g) ==
  (IF worded THEN <<"o", "k", " ">> ELSE << >>)
    \o <<"(">> \o ToDecimal(g[1]) \o <<",">> \o ToDecimal(g[2]) \o <<",">>
    \o ToDecimal(g[3]) \o <<",">> \o ToDecimal(g[4]) \o <<",">>
    \o ToDecimal(g[5]) \o <<",">> \o ToDecimal(g[6]) \o <<")">>
    \o (IF worded THEN <<".">> ELSE << >>)

PasvReplies ==
  {<<"2", "2", "7", " ">> \o PasvMessage(worded, g) :
     worded \in BOOLEAN, g \in PasvGroups}

\* Successful replies to PASV without the six-number group: no group, five
\* numbers, no closing parenthesis, an empty number.
MalformedPasvReplies ==
  {<<"2", "2", "7", " ", "o", "k">>,
   <<"2", "2", "7", " ", "(", "1", ",", "2", ",", "3", ",", "4", ",", "5", ")">>,
   <<"2", "2", "7", " ", "(", "1", ",", "2", ",", "3", ",", "4", ",", "5", ",",
     "6">>,
   <<"2", "2", "7", " ", "(", "1", ",", "2", ",", ",", "4", ",", "5", ",", "6",
     ")">>}

\* The lines of the login exchange: greeting (one line or the first line of
\* several), the replies to USER and to PASS, and an empty line.
G220 == <<"2", "2", "0", " ">>
G220h == <<"2", "2", "0", "-">>
R331 == <<"3", "3", "1", " ">>
R230 == <<"2", "3", "0", " ">>
R530 == <<"5", "3", "0", " ">>

LoginLines == {<< >>, G220, G220h, R331, R230}

\* What may follow the last terminator: nothing, the start of a line, or a
\* line whose terminator is cut after its CR.
Partials == {<< >>, <<"2", "2">>, <<"2", "3", "0", " ", CR>>}

RECURSIVE Terminated(_)
Terminated(lines) ==
  IF lines = << >> THEN << >>
  ELSE Head(lines) \o <<CR, LF>> \o Terminated(Tail(lines))

\* The byte sequences the server sends while connect() runs.
ReplyByteSeqs ==
  {Terminated(lines) \o tail :
     lines \in UNION {[1..n -> LoginLines] : n \in 0..MaxReplyLines},
     tail \in Partials}

\* bytes cut after the positions in cuts (increasing), from position from on.
RECURSIVE CutAt(_, _, _)
CutAt(bytes, from, cuts) ==
  IF cuts = << >> THEN <<SubSeq(bytes, from, Len(bytes))>>
  ELSE <<SubSeq(bytes, from, Head(cuts))>>
         \o CutAt(bytes, Head(cuts) + 1, Tail(cuts))

\* The sets of at most k cut positions among 1..n.
RECURSIVE CutSets(_, _)
CutSets(n, k) ==
  IF n = 0 \/ k = 0 THEN {{}}
  ELSE CutSets(n - 1, k) \cup {c \cup {n} : c \in CutSets(n - 1, k - 1)}

\* Every way of delivering bytes in at most MaxSplit non-empty chunks.
Splits(bytes) ==
  IF bytes = << >> THEN {<< >>}
  ELSE {CutAt(bytes, 1, Ascending(cuts)) :
          cuts \in CutSets(Len(bytes) - 1, MaxSplit - 1)}

\* ---------------------------------------------------- the caller's inputs
CmdSTAT == <<"STAT">>
CmdPASS == <<"PASS", "secret">>
CmdPASV == <<"PASV">>
CmdUSER == <<"USER", "user">>

\* sendCommand(command, allowPreliminary) calls the caller makes.
CallerCalls ==
  {[command |-> CmdPASS, allowPreliminary |-> FALSE],
   [command |-> CmdSTAT, allowPreliminary |-> TRUE]}

TransferOps == {"upload", "download", "downloadStream", "list"}

TransferVerb(op) ==
  CASE op = "upload" -> "STOR"
    [] op = "download" -> "RETR"
    [] op = "downloadStream" -> "RETR"
    [] op = "list" -> "LIST"

Variants == {"2.1.0", "2.2.0"}

VARIABLES
  variant,        \* which lib/commands.js the session runs
  connected,      \* client.connected
  authenticated,  \* client.authenticated
  commandCount,   \* client._commandCount
  lastCommand,    \* client._lastCommand
  cmds,           \* the sendCommand invocations, in call order
  xfers,          \* the transfer invocations, in call order
  dataSocket,     \* client.dataSocket: the transfer whose socket it holds
  wire,           \* the command lines written to the control socket
  nLines,         \* reply lines delivered so far
  nFinal,         \* final replies (complete, code 200 or above) among them
  disciplined,    \* the caller has awaited every operation so far
  replyBytes,     \* the bytes the server sends while connect() runs
  incoming,       \* the chunks of them the control socket has yet to emit
  buffer,         \* client.buffer
  emitted,        \* the lines emitted as 'response' events from those bytes
  loops,          \* the 'data' handler invocations suspended at an await
  connectState,   \* the promise connect() returned
  connectTimer,   \* its 10 s 'Connection timeout' timer is armed
  server,         \* the server: its directories, the session's working
                  \* directory, the directories it lets nobody write to, and
                  \* how many of the commands written it has answered
  ensure,         \* the ensureDir call of the caller and its promise
  stack,          \* the ensureDir invocations under way, innermost last
  removal,        \* the removeDir call of the caller, its promise and the
                  \* removeDir invocations under way, innermost last
  listData,       \* the data socket of the list() a removeDir awaits
  pipe,           \* the reply lines the server has sent and the control
                  \* socket has yet to emit
  closing         \* the close() call of the caller: its promise, whether
                  \* it has ended the control socket (which is open until
                  \* its 'close' event), whether the server has seen QUIT

\* The state of connect() and of the control socket's 'data' handler.
connectVars == <<replyBytes, incoming, buffer, emitted, loops, connectState,
                 connectTimer, closing>>

\* The state of ensureDir, of removeDir and of the server they talk to.
dirVars == <<server, ensure, stack, removal, listData, pipe>>

vars == <<variant, connected, authenticated, commandCount, lastCommand, cmds,
          xfers, dataSocket, wire, nLines, nFinal, disciplined, connectVars,
          dirVars>>

\* ------------------------------------------------------------ sendCommand
\* The promise and the listener of one _sendCommand(command, allowPreliminary)
\* call.  owner is the transfer that made the call (0: the caller), wire the
\* position of the command on the control socket.  History kept for the
\* properties: overlaps (another command was pending when this one was sent),
\* continuation (the code of the hyphen line heard last, 0 once a complete
\* line was heard), preliminaries (the 1xx replies it was kept waiting on),
\* multiline (settled by the last line of a multi-line reply).
NotConnectedCommand(command, allowPreliminary, owner) ==
  [command |-> command, allowPreliminary |-> allowPreliminary, owner |-> owner,
   state |-> "rejected", err |-> "NotConnected", code |-> 0, message |-> << >>,
   errCommand |-> << >>, listening |-> FALSE, timer |-> FALSE, wire |-> 0,
   overlaps |-> \E j \in DOMAIN cmds : cmds[j].state = "pending",
   continuation |-> 0, preliminaries |-> 0, multiline |-> FALSE]

PendingCommand(command, allowPreliminary, owner) ==
  [command |-> command, allowPreliminary |-> allowPreliminary, owner |-> owner,
   state |-> "pending", err |-> "none", code |-> 0, message |-> << >>,
   errCommand |-> << >>, listening |-> TRUE, timer |-> TRUE,
   wire |-> Len(wire) + 1,
   overlaps |-> \E j \in DOMAIN cmds : cmds[j].state = "pending",
   continuation |-> 0, preliminaries |-> 0, multiline |-> FALSE]

\* The promise _sendCommand returns, right after the call.
SendCommandPromise(command, allowPreliminary, owner) ==
  IF ~connected THEN NotConnectedCommand(command, allowPreliminary, owner)
  ELSE PendingCommand(command, allowPreliminary, owner)

\* What the call does to the session besides creating the promise.
SendCommandWrites(command) ==
  IF ~connected
  THEN UNCHANGED <<commandCount, lastCommand, wire>>
  ELSE /\ commandCount' = commandCount + 1
       /\ lastCommand' = command
       /\ wire' = Append(wire, command)

\* this._debug('>>>', cmdToLog): the debug line of a command that was sent.
DebugLine(c) == <<">>>">> \o MaskPassword(c.command)

\* getStats()
GetStats ==
  [connected |-> connected, authenticated |-> authenticated,
   commandCount |-> commandCount, lastCommand |-> lastCommand]

\* The setTimeout callback of _sendCommand.
OnCommandTimeout(c) ==
  [c EXCEPT !.listening = FALSE, !.timer = FALSE, !.state = "rejected",
            !.err = "CommandTimeout", !.errCommand = MaskPassword(c.command)]

\* responseHandler(line) of a registered listener.
ResponseHandler(c, line) ==
  LET code == ReplyCode(line)
      message == ReplyMessage(line)
      heard == [c EXCEPT !.timer = FALSE, !.continuation = 0,
                         !.multiline = (c.continuation # 0 /\ c.continuation = code)]
  IN  IF ~IsCompleteResponse(line)
      THEN [heard EXCEPT !.continuation = code, !.multiline = FALSE]
      ELSE IF IsPreliminary(code, c.allowPreliminary)
      THEN [heard EXCEPT !.preliminaries = @ + 1, !.multiline = FALSE]
      ELSE IF IsSuccess(code)
      THEN [heard EXCEPT !.listening = FALSE, !.state = "resolved",
                         !.code = code, !.message = message]
      ELSE [heard EXCEPT !.listening = FALSE, !.state = "rejected",
                         !.err = "FTPError", !.code = code,
                         !.message = message]

\* ---------------------------------------------- the 'data' handler, login
\* The part of the session that the control socket's 'data' handler and the
\* login it starts work on; jobs are the promise reactions still to run, as
\* the commands whose settling queued them.
Session ==
  [cmds |-> cmds, wire |-> wire, commandCount |-> commandCount,
   lastCommand |-> lastCommand, authenticated |-> authenticated,
   emitted |-> emitted, loops |-> loops, connectState |-> connectState,
   jobs |-> << >>, connected |-> connected, closing |-> closing]

\* _sendCommand(command) called by the library itself (owner -1): by the
\* login of connect() or by ensureDir.
SendIn(S, command) ==
  IF ~S.connected
  THEN [S EXCEPT !.cmds = Append(@, NotConnectedCommand(command, FALSE, -1)),
                 !.jobs = Append(@, Len(S.cmds) + 1)]
  ELSE [S EXCEPT
          !.cmds = Append(@, [PendingCommand(command, FALSE, -1) EXCEPT
                     !.wire = Len(S.wire) + 1,
                     !.overlaps = \E j \in DOMAIN S.cmds :
                                    S.cmds[j].state = "pending"]),
          !.wire = Append(@, command),
          !.commandCount = @ + 1,
          !.lastCommand = command]

\* this.emit('response', line): the registered listeners run in the order of
\* their registration; each promise they settle queues its reaction.
EmitIn(S, line) ==
  LET newCmds == [i \in DOMAIN S.cmds |->
                    IF S.cmds[i].listening
                    THEN ResponseHandler(S.cmds[i], line) ELSE S.cmds[i]]
      settled == {i \in DOMAIN S.cmds : S.cmds[i].state = "pending"
                                        /\ newCmds[i].state # "pending"}
  IN  [S EXCEPT !.cmds = newCmds, !.emitted = Append(@, line),
                !.jobs = @ \o Ascending(settled)]

\* for (const line of lines) { if (line) { emit; if (220 && !authenticated)
\* { await _sendCommand('USER ...') ... } } }: the loop runs until it is
\* through or suspended at the await, the lines left kept for its resumption.
RECURSIVE RunLoop(_, _)
RunLoop(S, lines) ==
  IF lines = << >> THEN S
  ELSE IF Head(lines) = << >> THEN RunLoop(S, Tail(lines))
  ELSE LET E == EmitIn(S, Head(lines))
       IN  IF ReplyCode(Head(lines)) = 220 /\ ~E.authenticated
           THEN LET U == SendIn(E, CmdUSER)
                IN  [U EXCEPT !.loops = @ \cup
                       {[rest |-> Tail(lines), awaits |-> Len(U.cmds),
                         stage |-> "USER"]}]
           ELSE RunLoop(E, Tail(lines))

SettleConnect(state, outcome) == IF state = "pending" THEN outcome ELSE state

\* No close() call has been made.
NoClosing == [state |-> "idle", ended |-> FALSE, bye |-> FALSE]

\* close() resumes after `await this._sendCommand('QUIT')`, whether it
\* resolved or threw: this.socket.end(), both flags false.
AfterQuit(S) ==
  [S EXCEPT !.closing.state = "resolved", !.closing.ended = S.connected,
            !.connected = FALSE, !.authenticated = FALSE]

\* The handler resumes after `await _sendCommand(...)`, command j settled.
Continue(S, loop, j) ==
  IF loop.stage = "QUIT" THEN AfterQuit(S)
  ELSE IF S.cmds[j].state = "rejected"
  THEN RunLoop([S EXCEPT !.connectState = SettleConnect(@, "rejected")],
               loop.rest)
  ELSE IF loop.stage = "USER"
  THEN LET P == SendIn(S, CmdPASS)
       IN  [P EXCEPT !.loops = @ \cup
              {[rest |-> loop.rest, awaits |-> Len(P.cmds), stage |-> "PASS"]}]
  ELSE RunLoop([S EXCEPT !.authenticated = TRUE,
                         !.connectState = SettleConnect(@, "resolved")],
               loop.rest)

\* The microtask queue is run to its end.
RECURSIVE Drain(_)
Drain(S) ==
  IF S.jobs = << >> THEN S
  ELSE LET j == Head(S.jobs)
           T == [S EXCEPT !.jobs = Tail(@)]
           waiting == {l \in S.loops : l.awaits = j}
       IN  IF waiting = {} THEN Drain(T)
           ELSE LET loop == CHOOSE l \in waiting : TRUE
                IN  Drain(Continue([T EXCEPT !.loops = @ \ {loop}], loop, j))

\* The session takes the values the handler computed.
Adopt(S) ==
  /\ cmds' = S.cmds
  /\ wire' = S.wire
  /\ commandCount' = S.commandCount
  /\ lastCommand' = S.lastCommand
  /\ authenticated' = S.authenticated
  /\ emitted' = S.emitted
  /\ loops' = S.loops
  /\ connectState' = S.connectState
  /\ connected' = S.connected
  /\ closing' = S.closing

\* -------------------------------------------------------------- ensureDir
\* No ensureDir call has been made.
NoEnsure ==
  [state |-> "idle", path |-> << >>, recursive |-> FALSE, isFilePath |-> FALSE,
   cwd |-> Root, dirs |-> {}, err |-> << >>]

\* err.message of the error a rejected command carries.
ErrorMessage(c) ==
  CASE c.err = "FTPError" ->
         <<"F", "T", "P", " ", "E", "r", "r", "o", "r", " ">>
           \o (IF c.code = NaN THEN <<"N", "a", "N">> ELSE ToDecimal(c.code))
           \o <<":", " ">> \o c.message
    [] c.err = "CommandTimeout" ->
         <<"C", "o", "m", "m", "a", "n", "d", " ", "t", "i", "m", "e", "o",
           "u", "t", ":", " ">> \o c.errCommand
    [] OTHER -> <<"N", "o", "t", " ", "c", "o", "n", "n", "e", "c", "t", "e", "d">>

\* !err.message.includes('550') && !err.message.includes('exists')
MustThrow(message) ==
  /\ ~Includes(message, <<"5", "5", "0">>)
  /\ ~Includes(message, <<"e", "x", "i", "s", "t", "s">>)

\* The session as ensureDir works on it.
DirSession ==
  [cmds |-> cmds, wire |-> wire, commandCount |-> commandCount,
   lastCommand |-> lastCommand, emitted |-> emitted, jobs |-> << >>,
   connected |-> connected, ensure |-> ensure, stack |-> stack]

\* An ensureDir invocation sends a command and awaits it at the given stage.
AwaitIn(S, frame, stage, command) ==
  LET T == SendIn(S, command)
  IN  [T EXCEPT !.stack = Append(@, [frame EXCEPT !.stage = stage,
                                                  !.awaits = Len(T.cmds)])]

\* `await this.mkdir(normalized)` of the invocation frame.
Mkdir(S, frame) == AwaitIn(S, frame, "mkd", <<"MKD">> \o frame.path)

\* The innermost invocation has returned: the promise of the caller's call
\* resolves, or the invocation that awaited it goes on to create its own
\* directory.
ReturnIn(S) ==
  IF S.stack = << >> THEN [S EXCEPT !.ensure.state = "resolved"]
  ELSE Mkdir([S EXCEPT !.stack = Front(@)], Last(S.stack))

\* The innermost invocation has thrown: no invocation that awaits another
\* catches, the promise of the caller's call rejects.
ThrowIn(S, message) ==
  [S EXCEPT !.stack = << >>, !.ensure.state = "rejected",
            !.ensure.err = message]

\* ensureDir(path, recursive, isFilePath) up to its first await or return
\* (2.2.0 has no third parameter and tests the path for an extension).
EnterEnsureDir(S, path, recursive, isFilePath) ==
  LET isFile == IF variant = "2.1.0" THEN isFilePath ELSE HasExtension(path)
      targetPath == IF isFile THEN GetParentDir(path) ELSE path
      normalized == NormalizePath(targetPath)
  IN  IF targetPath = << >> \/ targetPath = <<".">> \/ targetPath = <<"/">>
      THEN ReturnIn(S)
      ELSE IF normalized = <<"/">> \/ normalized = <<".">>
      THEN ReturnIn(S)
      ELSE AwaitIn(S, [path |-> normalized, recursive |-> recursive,
                       stage |-> "cwd", awaits |-> 0],
                   "cwd", <<"CWD">> \o normalized)

\* The innermost invocation resumes, the command j it awaited settled.
ResumeIn(S, j) ==
  LET frame == Last(S.stack)
      T == [S EXCEPT !.stack = Front(@)]
      c == S.cmds[j]
  IN  IF frame.stage = "cwd"
      THEN IF c.state = "resolved" THEN ReturnIn(T)
           ELSE IF frame.recursive /\ ParentDir(frame.path) # <<"/">>
                                   /\ ParentDir(frame.path) # <<".">>
           THEN EnterEnsureDir([T EXCEPT !.stack = Append(@,
                                   [frame EXCEPT !.stage = "parent"])],
                               ParentDir(frame.path), TRUE, FALSE)
           ELSE Mkdir(T, frame)
      ELSE IF c.state = "resolved" THEN ReturnIn(T)
           ELSE IF MustThrow(ErrorMessage(c)) THEN ThrowIn(T, ErrorMessage(c))
           ELSE ReturnIn(T)

\* The promise reactions are run to the end.
RECURSIVE DrainDir(_)
DrainDir(S) ==
  IF S.jobs = << >> THEN S
  ELSE LET j == Head(S.jobs)
           T == [S EXCEPT !.jobs = Tail(@)]
       IN  IF T.stack # << >> /\ Last(T.stack).awaits = j
           THEN DrainDir(ResumeIn(T, j))
           ELSE DrainDir(T)

AdoptDir(S) ==
  /\ cmds' = S.cmds
  /\ wire' = S.wire
  /\ commandCount' = S.commandCount
  /\ lastCommand' = S.lastCommand
  /\ emitted' = S.emitted
  /\ ensure' = S.ensure
  /\ stack' = S.stack

\* -------------------------------------------------------------- removeDir
\* No removeDir call has been made.
NoRemoval ==
  [state |-> "idle", path |-> << >>, recursive |-> FALSE, err |-> << >>,
   stack |-> << >>, dirs |-> {}, files |-> {}, listings |-> << >>]

\* No list() is under way.  Otherwise state is "connecting" from the creation
\* of the data socket, "connected" once its connect callback has written LIST,
\* "closed" while the 10 ms timer of its 'close' handler runs; sent is what
\* the server has written to the connection and whether it has closed it.
NoListData ==
  [state |-> "none", host |-> << >>, port |-> 0, sent |-> << >>,
   ended |-> FALSE]

FailedToRemove ==
  <<"F", "a", "i", "l", "e", "d", " ", "t", "o", " ", "r", "e", "m", "o",
    "v", "e", " ", "d", "i", "r", "e", "c", "t", "o", "r", "y", " ">>

FailedToParsePasv ==
  <<"F", "a", "i", "l", "e", "d", " ", "t", "o", " ", "p", "a", "r", "s",
    "e", " ", "P", "A", "S", "V", " ", "r", "e", "s", "p", "o", "n", "s",
    "e">>

ECONNRESET == <<"E", "C", "O", "N", "N", "R", "E", "S", "E", "T">>

\* The session as removeDir works on it.
RemoveSession ==
  [cmds |-> cmds, wire |-> wire, commandCount |-> commandCount,
   lastCommand |-> lastCommand, emitted |-> emitted, jobs |-> << >>,
   connected |-> connected, removal |-> removal, listData |-> listData]

\* A removeDir invocation sends a command and awaits it at the given stage.
AwaitRemoving(S, frame, stage, command) ==
  LET T == SendIn(S, command)
  IN  [T EXCEPT !.removal.stack =
         Append(@, [frame EXCEPT !.stage = stage, !.awaits = Len(T.cmds)])]

\* removeDir(path, recursive) up to its first await: RMD of an empty
\* directory, or the PASV of list(path).
EnterRemoveDir(S, path, recursive) ==
  LET frame == [path |-> path, stage |-> "rmd", awaits |-> 0,
                entries |-> << >>]
  IN  IF ~recursive
      THEN AwaitRemoving(S, frame, "only", <<"RMD">> \o path)
      ELSE AwaitRemoving(S, frame, "pasv", CmdPASV)

\* The entries left to an invocation: it recurses into a directory, deletes a
\* file, and removes its own directory after the last.
ProcessEntries(S, frame) ==
  IF frame.entries = << >>
  THEN AwaitRemoving(S, frame, "rmd", <<"RMD">> \o frame.path)
  ELSE IF Head(frame.entries).isDir
  THEN EnterRemoveDir(
         [S EXCEPT !.removal.stack =
            Append(@, [frame EXCEPT !.stage = "recurse", !.awaits = 0])],
         Head(frame.entries).path, TRUE)
  ELSE AwaitRemoving(S, frame, "dele", <<"DELE">> \o Head(frame.entries).path)

\* (A variant that forgets the entries left once a subdirectory is removed.)
ReturnRemovingSkipsRest(S) ==
  IF S.removal.stack = << >> THEN [S EXCEPT !.removal.state = "resolved"]
  ELSE LET frame == Last(S.removal.stack)
       IN  ProcessEntries([S EXCEPT !.removal.stack = Front(@)],
                          [frame EXCEPT !.entries = << >>])

\* The innermost invocation has returned: the promise of the caller's call
\* resolves, or the invocation that awaited it goes on with its next entry.
ReturnRemoving(S) ==
  IF S.removal.stack = << >> THEN [S EXCEPT !.removal.state = "resolved"]
  ELSE LET frame == Last(S.removal.stack)
       IN  ProcessEntries([S EXCEPT !.removal.stack = Front(@)],
                          [frame EXCEPT !.entries = Tail(@)])

\* catch (err) { throw new Error(`Failed to remove directory ...`) } of the
\* invocation frame and of every invocation that awaits it.
RECURSIVE CatchRemoving(_, _, _)
CatchRemoving(S, frame, message) ==
  LET wrapped == FailedToRemove \o frame.path \o <<":", " ">> \o message
  IN  IF S.removal.stack = << >>
      THEN [S EXCEPT !.removal.state = "rejected", !.removal.err = wrapped]
      ELSE CatchRemoving([S EXCEPT !.removal.stack = Front(@)],
                         Last(S.removal.stack), wrapped)

\* The list() an invocation awaited has resolved with the listing.
ListResolved(S, listing) ==
  LET frame == Last(S.removal.stack)
  IN  ProcessEntries([S EXCEPT !.removal.stack = Front(@),
                               !.removal.listings = Append(@, listing)],
                     [frame EXCEPT
                        !.entries = ListingEntries(frame.path, listing)])

\* The innermost invocation resumes, the command j it awaited settled.
ResumeRemoving(S, j) ==
  LET frame == Last(S.removal.stack)
      T == [S EXCEPT !.removal.stack = Front(@)]
      c == S.cmds[j]
  IN  CASE frame.stage = "only" ->
             IF c.state = "resolved" THEN ReturnRemoving(T)
             ELSE [T EXCEPT !.removal.state = "rejected",
                            !.removal.err = ErrorMessage(c)]
        [] frame.stage = "pasv" ->
             IF c.state = "rejected"
             THEN CatchRemoving(T, frame, ErrorMessage(c))
             ELSE IF ~HasPasvGroup(c.message)
             THEN CatchRemoving(T, frame, FailedToParsePasv)
             ELSE [S EXCEPT
                     !.removal.stack[Len(S.removal.stack)].stage = "list",
                     !.removal.stack[Len(S.removal.stack)].awaits = 0,
                     !.listData = [state |-> "connecting",
                                   host |-> PasvHost(c.message),
                                   port |-> PasvPort(c.message),
                                   sent |-> << >>, ended |-> FALSE]]
        [] frame.stage = "dele" ->
             ProcessEntries(T, [frame EXCEPT !.entries = Tail(@)])
        [] OTHER ->
             IF c.state = "resolved" THEN ReturnRemoving(T)
             ELSE CatchRemoving(T, frame, ErrorMessage(c))

\* The promise reactions are run to the end.
RECURSIVE DrainRemoving(_)
DrainRemoving(S) ==
  IF S.jobs = << >> THEN S
  ELSE LET j == Head(S.jobs)
           T == [S EXCEPT !.jobs = Tail(@)]
       IN  IF /\ T.removal.stack # << >>
              /\ Last(T.removal.stack).awaits = j
           THEN DrainRemoving(ResumeRemoving(T, j))
           ELSE DrainRemoving(T)

AdoptRemoving(S) ==
  /\ cmds' = S.cmds
  /\ wire' = S.wire
  /\ commandCount' = S.commandCount
  /\ lastCommand' = S.lastCommand
  /\ emitted' = S.emitted
  /\ removal' = S.removal
  /\ listData' = S.listData

\* -------------------------------------------------------------- transfers
Resolve(x) == IF x.outcome = "pending" THEN [x EXCEPT !.outcome = "resolved"] ELSE x

Reject(x, err, code, message) ==
  IF x.outcome = "pending"
  THEN [x EXCEPT !.outcome = "rejected", !.err = err, !.code = code,
                 !.message = message]
  ELSE x

NewTransfer(op, pasv) ==
  [op |-> op, phase |-> "pasv", outcome |-> "pending", err |-> "none",
   code |-> 0, message |-> << >>, pasv |-> pasv, cmd |-> 0,
   commandSent |-> FALSE, wire |-> 0, payloadOn |-> 0, chunks |-> 0,
   finalListening |-> FALSE, finalTimer |-> FALSE, delayTimer |-> FALSE,
   reply |-> 0, replyMessage |-> << >>, preliminary |-> FALSE,
   errorAt |-> "none", host |-> << >>, port |-> 0]

ReactConnectsWithoutGroup(x, old, new) ==
  IF x.phase = "pasv" /\ old[x.pasv].state = "pending"
                      /\ new[x.pasv].state # "pending"
  THEN LET p == new[x.pasv]
       IN  IF p.state = "rejected"
           THEN [Reject(x, p.err, p.code, p.message) EXCEPT !.phase = "none"]
           ELSE IF HasPasvGroup(p.message)
           THEN [x EXCEPT !.phase = "connecting",
                          !.host = PasvHost(p.message),
                          !.port = PasvPort(p.message)]
           ELSE [x EXCEPT !.phase = "connecting"]
  ELSE IF x.cmd # 0 /\ old[x.cmd].state = "pending"
                    /\ new[x.cmd].state = "rejected"
  THEN Reject(x, new[x.cmd].err, new[x.cmd].code, new[x.cmd].message)
  ELSE x

\* The continuation of `await enterPassiveMode()` and the .catch(reject) of
\* the transfer command, run when the command they wait for settles.
React(x, old, new) ==
  IF x.phase = "pasv" /\ old[x.pasv].state = "pending"
                      /\ new[x.pasv].state # "pending"
  THEN LET p == new[x.pasv]
       IN  IF p.state = "rejected"
           THEN [Reject(x, p.err, p.code, p.message) EXCEPT !.phase = "none"]
           ELSE IF HasPasvGroup(p.message)
           THEN [x EXCEPT !.phase = "connecting",
                          !.host = PasvHost(p.message),
                          !.port = PasvPort(p.message)]
           ELSE [Reject(x, "PasvParse", 0, << >>) EXCEPT !.phase = "none"]
  ELSE IF x.cmd # 0 /\ old[x.cmd].state = "pending"
                    /\ new[x.cmd].state = "rejected"
  THEN Reject(x, new[x.cmd].err, new[x.cmd].code, new[x.cmd].message)
  ELSE x

\* finalHandler(line) of the 2.1.0 transfers.
FinalHandler(x, line) ==
  LET code == ReplyCode(line)
  IN  IF code = 226 \/ code = 250
      THEN [Resolve(x) EXCEPT !.finalListening = FALSE]
      ELSE IF code >= 400 /\ x.op # "list"
      THEN [Reject(x, "FTPError", code, ReplyMessage(line))
              EXCEPT !.finalListening = FALSE]
      ELSE x

\* The fallback setTimeout callback of the 2.1.0 transfers.
OnFinalTimeout(x) ==
  LET off == [x EXCEPT !.finalListening = FALSE, !.finalTimer = FALSE]
  IN  CASE x.op \in {"upload", "list"} -> Resolve(off)
        [] x.op = "download" -> IF x.chunks > 0 THEN Resolve(off) ELSE off
        [] x.op = "downloadStream" ->
             IF x.chunks > 0 THEN Resolve(off)
             ELSE Reject(off, "DownloadTimeout", 0, << >>)

\* ----------------------------------------------------------------- state
\* A session after connect() has resolved: the login exchange (USER, PASS)
\* is over, its two listeners are gone.
Init ==
  /\ variant \in Variants
  /\ connected = TRUE
  /\ authenticated = TRUE
  /\ commandCount = 2
  /\ lastCommand = CmdPASS
  /\ cmds = << >>
  /\ xfers = << >>
  /\ dataSocket = 0
  /\ wire = << >>
  /\ nLines = 0
  /\ nFinal = 0
  /\ disciplined = TRUE
  /\ replyBytes = << >>
  /\ incoming = << >>
  /\ buffer = << >>
  /\ emitted = << >>
  /\ loops = {}
  /\ connectState = "resolved"
  /\ connectTimer = FALSE
  /\ server = [dirs |-> {}, files |-> {}, cwd |-> Root, denied |-> {},
              answered |-> 0]
  /\ ensure = NoEnsure
  /\ stack = << >>
  /\ removal = NoRemoval
  /\ listData = NoListData
  /\ pipe = << >>
  /\ closing = NoClosing

CmdIds == DOMAIN cmds
XferIds == DOMAIN xfers

\* No operation the caller started is still unsettled.
NoOperationInFlight ==
  /\ \A i \in CmdIds : cmds[i].owner = 0 => cmds[i].state # "pending"
  /\ \A t \in XferIds : xfers[t].outcome # "pending"

\* sendCommand calls that transfers already under way will still make.
ReservedCmds ==
  IF variant = "2.1.0"
  THEN Cardinality({t \in XferIds : xfers[t].phase \in {"pasv", "connecting"}})
  ELSE 0

\* ---------------------------------------------------------------- actions
\* The caller calls sendCommand(command, allowPreliminary).
CallSendCommand(command, allowPreliminary) ==
  /\ Len(cmds) + ReservedCmds < MaxCmd
  /\ cmds' = Append(cmds, SendCommandPromise(command, allowPreliminary, 0))
  /\ SendCommandWrites(command)
  /\ disciplined' = (disciplined /\ NoOperationInFlight)
  /\ UNCHANGED <<dirVars, connectVars, variant,
                 connected, authenticated, xfers, dataSocket, nLines, nFinal>>

\* (A variant that asks for the connection only.)
NotReadyIgnoresLogin(op) == op # "list" /\ ~connected

\* if (!this.client.connected || !this.client.authenticated) of upload,
\* download and downloadStream; list has no such check.
NotReady(op) == op # "list" /\ ~(connected /\ authenticated)

\* The caller calls upload, download, downloadStream or list: the connection
\* check of upload/download/downloadStream, then `await enterPassiveMode()`.
BeginTransfer(op) ==
  /\ disciplined' = (disciplined /\ NoOperationInFlight)
  /\ IF NotReady(op)
     THEN /\ xfers' = Append(xfers,
                 [Reject(NewTransfer(op, 0), "NotConnectedToServer", 0, << >>)
                    EXCEPT !.phase = "none"])
          /\ UNCHANGED <<cmds, commandCount, lastCommand, wire>>
     ELSE LET p == SendCommandPromise(CmdPASV, FALSE, Len(xfers) + 1)
              x == NewTransfer(op, Len(cmds) + 1)
          IN  /\ cmds' = Append(cmds, p)
              /\ SendCommandWrites(CmdPASV)
              /\ xfers' = Append(xfers,
                    IF p.state = "rejected"
                    THEN [Reject(x, p.err, 0, << >>) EXCEPT !.phase = "none"]
                    ELSE x)
  /\ UNCHANGED <<dirVars, connectVars, variant,
                 connected, authenticated, dataSocket, nLines, nFinal>>

\* The sendCommand calls a new transfer will make.
CommandsOfTransfer == IF variant = "2.1.0" THEN 2 ELSE 1

\* The call, within the bounds of the model.
StartTransfer(op) ==
  /\ Len(xfers) < MaxXfer
  /\ Len(cmds) + ReservedCmds + CommandsOfTransfer <= MaxCmd
  /\ BeginTransfer(op)

\* The transfers whose PASV exchange succeeds in this step create their data
\* socket and store it in client.dataSocket; the last one to do so stays.
SocketsCreated(old, new) ==
  {t \in DOMAIN new : old[t].phase = "pasv" /\ new[t].phase = "connecting"}

NewDataSocket(old, new) ==
  IF SocketsCreated(old, new) = {} THEN dataSocket
  ELSE CHOOSE t \in SocketsCreated(old, new) :
         \A u \in SocketsCreated(old, new) : u <= t

\* The first complete reply of code 200 or above that the server sends after
\* the transfer command was written: the transfer's final reply (c); a
\* complete 1xx reply before it: its preliminary reply.
Noted(x, line) ==
  IF x.wire # 0 /\ x.reply = 0 /\ IsCompleteResponse(line)
  THEN IF ReplyCode(line) >= 200
       THEN [x EXCEPT !.reply = ReplyCode(line),
                      !.replyMessage = ReplyMessage(line)]
       ELSE IF ReplyCode(line) >= 100 THEN [x EXCEPT !.preliminary = TRUE]
       ELSE x
  ELSE x

\* What the control channel had delivered for the transfer command of x.
ControlState(x) ==
  IF x.wire = 0 THEN "unsent"
  ELSE IF x.reply # 0 THEN "final"
  ELSE IF x.preliminary THEN "preliminary"
  ELSE "unanswered"

\* The control socket's 'data' handler emits one reply line: every registered
\* responseHandler and finalHandler runs on it, then the promise reactions.
DeliverLine(line) ==
  /\ connected
  /\ nLines < MaxLines
  /\ nLines' = nLines + 1
  /\ nFinal' = IF IsCompleteResponse(line) /\ ReplyCode(line) >= 200
             THEN nFinal + 1 ELSE nFinal
  /\ LET newCmds == [i \in CmdIds |->
                       IF cmds[i].listening
                       THEN ResponseHandler(cmds[i], line) ELSE cmds[i]]
         heard == [t \in XferIds |->
                     IF xfers[t].finalListening
                     THEN FinalHandler(Noted(xfers[t], line), line)
                     ELSE Noted(xfers[t], line)]
         newXfers == [t \in XferIds |-> React(heard[t], cmds, newCmds)]
     IN  /\ cmds' = newCmds
         /\ xfers' = newXfers
         /\ dataSocket' = NewDataSocket(xfers, newXfers)
  /\ UNCHANGED <<dirVars, connectVars, variant,
                 connected, authenticated, commandCount, lastCommand,
                 wire, disciplined>>

\* The deadline of a sendCommand call elapses.
CommandTimeout(i) ==
  /\ cmds[i].timer
  /\ LET newCmds == [cmds EXCEPT ![i] = OnCommandTimeout(cmds[i])]
     IN  /\ cmds' = newCmds
         /\ xfers' = [t \in XferIds |-> React(xfers[t], cmds, newCmds)]
  /\ UNCHANGED <<dirVars, connectVars, variant,
                 connected, authenticated, commandCount, lastCommand,
                 dataSocket, wire, nLines, nFinal, disciplined>>

\* (A variant whose transfer command does not wait for the passive reply.)
DataConnectBeforePassive(t) ==
  /\ xfers[t].phase \in {"pasv", "connecting"}
  /\ LET command == <<TransferVerb(xfers[t].op), "path">>
         x == [xfers[t] EXCEPT !.phase = "open", !.commandSent = TRUE,
                 !.payloadOn = IF xfers[t].op = "upload" THEN dataSocket ELSE 0]
     IN  IF variant = "2.1.0"
         THEN LET p == SendCommandPromise(command, TRUE, t)
              IN  /\ cmds' = Append(cmds, p)
                  /\ SendCommandWrites(command)
                  /\ xfers' = [xfers EXCEPT ![t] =
                        IF p.state = "rejected"
                        THEN Reject([x EXCEPT !.cmd = Len(cmds) + 1],
                                    p.err, 0, << >>)
                        ELSE [x EXCEPT !.cmd = Len(cmds) + 1,
                                       !.wire = p.wire]]
         ELSE /\ commandCount' = commandCount + 1
              /\ wire' = IF connected THEN Append(wire, command) ELSE wire
              /\ xfers' = [xfers EXCEPT ![t] =
                    [x EXCEPT !.wire = IF connected THEN Len(wire) + 1 ELSE 0]]
              /\ UNCHANGED <<cmds, lastCommand>>
  /\ UNCHANGED <<dirVars, connectVars, variant,
                 connected, authenticated, dataSocket, nLines, nFinal,
                 disciplined>>

\* The data socket of transfer t connects: the callback sends the transfer
\* command (2.1.0: sendCommand(..., true).catch(reject); 2.2.0: a raw write)
\* and, for an upload, writes the payload to client.dataSocket and ends it.
DataConnect(t) ==
  /\ xfers[t].phase = "connecting"
  /\ LET command == <<TransferVerb(xfers[t].op), "path">>
         x == [xfers[t] EXCEPT !.phase = "open", !.commandSent = TRUE,
                 !.payloadOn = IF xfers[t].op = "upload" THEN dataSocket ELSE 0]
     IN  IF variant = "2.1.0"
         THEN LET p == SendCommandPromise(command, TRUE, t)
              IN  /\ cmds' = Append(cmds, p)
                  /\ SendCommandWrites(command)
                  /\ xfers' = [xfers EXCEPT ![t] =
                        IF p.state = "rejected"
                        THEN Reject([x EXCEPT !.cmd = Len(cmds) + 1],
                                    p.err, 0, << >>)
                        ELSE [x EXCEPT !.cmd = Len(cmds) + 1,
                                       !.wire = p.wire]]
         ELSE /\ commandCount' = commandCount + 1
              /\ wire' = IF connected THEN Append(wire, command) ELSE wire
              /\ xfers' = [xfers EXCEPT ![t] =
                    [x EXCEPT !.wire = IF connected THEN Len(wire) + 1 ELSE 0]]
              /\ UNCHANGED <<cmds, lastCommand>>
  /\ UNCHANGED <<dirVars, connectVars, variant,
                 connected, authenticated, dataSocket, nLines, nFinal,
                 disciplined>>

\* (A variant whose 'data' handler resolves the transfer.)
DataChunkResolves(t) ==
  /\ xfers[t].phase = "open"
  /\ xfers[t].op # "upload"
  /\ xfers[t].chunks < MaxChunks
  /\ xfers' = [xfers EXCEPT ![t] = [Resolve(@) EXCEPT !.chunks = @ + 1]]
  /\ UNCHANGED <<dirVars, connectVars, variant,
                 connected, authenticated, commandCount, lastCommand,
                 cmds, dataSocket, wire, nLines, nFinal, disciplined>>

\* The data socket's 'data' handler: one more chunk.
DataChunk(t) ==
  /\ xfers[t].phase = "open"
  /\ xfers[t].op # "upload"
  /\ xfers[t].chunks < MaxChunks
  /\ xfers' = [xfers EXCEPT ![t].chunks = @ + 1]
  /\ UNCHANGED <<dirVars, connectVars, variant,
                 connected, authenticated, commandCount, lastCommand,
                 cmds, dataSocket, wire, nLines, nFinal, disciplined>>

DataErrorOnlyBeforeFinalReply(t) ==
  /\ xfers[t].phase \in {"connecting", "open"}
  /\ xfers' = [xfers EXCEPT ![t] =
       [(IF xfers[t].reply = 0
         THEN Reject(xfers[t], "DataChannelError", 0, << >>)
         ELSE Resolve(xfers[t]))
          EXCEPT !.phase = "errored", !.errorAt = ControlState(xfers[t])]]
  /\ UNCHANGED <<dirVars, connectVars, variant,
                 connected, authenticated, commandCount, lastCommand,
                 cmds, dataSocket, wire, nLines, nFinal, disciplined>>

\* The data socket's 'error' handler: reject(err).
DataError(t) ==
  /\ xfers[t].phase \in {"connecting", "open"}
  /\ xfers' = [xfers EXCEPT ![t] =
       [Reject(xfers[t], "DataChannelError", 0, << >>)
          EXCEPT !.phase = "errored", !.errorAt = ControlState(xfers[t])]]
  /\ UNCHANGED <<dirVars, connectVars, variant,
                 connected, authenticated, commandCount, lastCommand,
                 cmds, dataSocket, wire, nLines, nFinal, disciplined>>

\* The data socket's 'close' handler (the socket emits 'close' after the
\* server ends the connection and after every 'error').
DataClose(t) ==
  /\ xfers[t].phase \in {"open", "errored"}
  /\ xfers' = [xfers EXCEPT ![t] =
       IF variant = "2.1.0"
       THEN [@ EXCEPT !.phase = "closed", !.finalListening = TRUE,
                      !.finalTimer = TRUE]
       ELSE [@ EXCEPT !.phase = "closed", !.delayTimer = TRUE]]
  /\ UNCHANGED <<dirVars, connectVars, variant,
                 connected, authenticated, commandCount, lastCommand,
                 cmds, dataSocket, wire, nLines, nFinal, disciplined>>

\* 2.1.0: the fallback timer set by the 'close' handler fires.
FinalTimeout(t) ==
  /\ xfers[t].finalTimer
  /\ xfers' = [xfers EXCEPT ![t] = OnFinalTimeout(@)]
  /\ UNCHANGED <<dirVars, connectVars, variant,
                 connected, authenticated, commandCount, lastCommand,
                 cmds, dataSocket, wire, nLines, nFinal, disciplined>>

\* 2.2.0: the 10 ms timer set by the 'close' handler fires: resolve(...).
DelayElapsed(t) ==
  /\ xfers[t].delayTimer
  /\ xfers' = [xfers EXCEPT ![t] = [Resolve(@) EXCEPT !.delayTimer = FALSE]]
  /\ UNCHANGED <<dirVars, connectVars, variant,
                 connected, authenticated, commandCount, lastCommand,
                 cmds, dataSocket, wire, nLines, nFinal, disciplined>>

\* The control socket's 'close' handler.
SocketClose ==
  /\ connected \/ closing.ended
  /\ connected' = FALSE
  /\ authenticated' = FALSE
  /\ closing' = [closing EXCEPT !.ended = FALSE]
  /\ UNCHANGED <<dirVars, variant, commandCount, lastCommand, cmds, xfers,
                 dataSocket, wire, nLines, nFinal, disciplined, replyBytes,
                 incoming, buffer, emitted, loops, connectState,
                 connectTimer>>

\* connect() has been called and the TCP connection is established: the
\* server's bytes and the way they will be chunked are still to come.
InitConnect ==
  /\ variant \in Variants
  /\ connected = TRUE
  /\ authenticated = FALSE
  /\ commandCount = 0
  /\ lastCommand = << >>
  /\ cmds = << >>
  /\ xfers = << >>
  /\ dataSocket = 0
  /\ wire = << >>
  /\ nLines = 0
  /\ nFinal = 0
  /\ disciplined = TRUE
  /\ replyBytes \in ReplyByteSeqs
  /\ incoming \in Splits(replyBytes)
  /\ buffer = << >>
  /\ emitted = << >>
  /\ loops = {}
  /\ connectState = "pending"
  /\ connectTimer = TRUE
  /\ server = [dirs |-> {}, files |-> {}, cwd |-> Root, denied |-> {},
              answered |-> 0]
  /\ ensure = NoEnsure
  /\ stack = << >>
  /\ removal = NoRemoval
  /\ listData = NoListData
  /\ pipe = << >>
  /\ closing = NoClosing

\* (A variant that also emits what follows the last terminator.)
SocketDataFlushesRest ==
  /\ connected \/ closing.ended
  /\ incoming # << >>
  /\ LET pieces == SplitCRLF(buffer \o Head(incoming))
     IN  /\ buffer' = << >>
         /\ Adopt(Drain(RunLoop(Session, pieces)))
  /\ incoming' = Tail(incoming)
  /\ UNCHANGED <<dirVars, variant, xfers, dataSocket, nLines, nFinal,
                 disciplined, replyBytes, connectTimer>>

\* The control socket's 'data' handler runs on the next chunk.
SocketData ==
  /\ connected \/ closing.ended
  /\ incoming # << >>
  /\ LET pieces == SplitCRLF(buffer \o Head(incoming))
     IN  /\ buffer' = Last(pieces)
         /\ Adopt(Drain(RunLoop(Session, Front(pieces))))
  /\ incoming' = Tail(incoming)
  /\ UNCHANGED <<dirVars, variant, xfers, dataSocket, nLines, nFinal,
                 disciplined, replyBytes, connectTimer>>

\* The deadline of a command of the login elapses.
LoginCommandTimeout(i) ==
  /\ cmds[i].timer
  /\ Adopt(Drain([Session EXCEPT !.cmds[i] = OnCommandTimeout(@),
                                 !.jobs = <<i>>]))
  /\ UNCHANGED <<dirVars, variant, xfers, dataSocket, nLines, nFinal,
                 disciplined, replyBytes, incoming, buffer, connectTimer>>

\* setTimeout(() => reject(new Error('Connection timeout')), 10000)
ConnectTimeout ==
  /\ connectTimer
  /\ connectTimer' = FALSE
  /\ connectState' = SettleConnect(connectState, "rejected")
  /\ UNCHANGED <<dirVars, variant, connected, authenticated, commandCount, lastCommand,
                 cmds, xfers, dataSocket, wire, nLines, nFinal, disciplined,
                 replyBytes, incoming, buffer, emitted, loops, closing>>

\* connect(): the bytes of the server arrive in chunks while the login runs.
NextConnect ==
  \/ SocketData
  \/ \E i \in CmdIds : LoginCommandTimeout(i)
  \/ ConnectTimeout
  \/ SocketClose

SpecConnect == InitConnect /\ [][NextConnect]_vars

\* The greetings of a server: one line, or two lines of which the first is
\* a continuation line.
Greetings == {<<G220>>, <<G220h, G220>>}

\* connect() has been called, the TCP connection is established and the
\* server has sent its greeting.
InitLogin ==
  /\ variant \in Variants
  /\ connected = TRUE
  /\ authenticated = FALSE
  /\ commandCount = 0
  /\ lastCommand = << >>
  /\ cmds = << >>
  /\ xfers = << >>
  /\ dataSocket = 0
  /\ wire = << >>
  /\ nLines = 0
  /\ nFinal = 0
  /\ disciplined = TRUE
  /\ \E greeting \in Greetings :
       /\ replyBytes = Terminated(greeting)
       /\ incoming = <<Terminated(greeting)>>
  /\ buffer = << >>
  /\ emitted = << >>
  /\ loops = {}
  /\ connectState = "pending"
  /\ connectTimer = TRUE
  /\ server = [dirs |-> {}, files |-> {}, cwd |-> Root, denied |-> {},
              answered |-> 0]
  /\ ensure = NoEnsure
  /\ stack = << >>
  /\ removal = NoRemoval
  /\ listData = NoListData
  /\ pipe = << >>
  /\ closing = NoClosing

\* The network hands the bytes on their way to the client over in pieces:
\* the oldest piece is cut in two after its n-th byte (at most MaxSplit + 1
\* pieces at a time).
CutChunk(n) ==
  /\ incoming # << >>
  /\ Len(incoming) <= MaxSplit
  /\ n \in 1..(Len(Head(incoming)) - 1)
  /\ incoming' = <<SubSeq(Head(incoming), 1, n),
                   SubSeq(Head(incoming), n + 1, Len(Head(incoming)))>>
                   \o Tail(incoming)
  /\ UNCHANGED <<dirVars, variant, connected, authenticated, commandCount,
                 lastCommand, cmds, xfers, dataSocket, wire, nLines, nFinal,
                 disciplined, replyBytes, buffer, emitted, loops,
                 connectState, connectTimer, closing>>

\* The server answers the oldest command it has not answered: USER with 331,
\* PASS with 230 or, the password refused, with 530.  Its bytes follow those
\* still on their way.
LoginServerReplies(line) ==
  /\ connected
  /\ server.answered < Len(wire)
  /\ line = R331 \/ wire[server.answered + 1][1] = "PASS"
  /\ line \in {R230, R530} \/ wire[server.answered + 1][1] = "USER"
  /\ server' = [server EXCEPT !.answered = @ + 1]
  /\ replyBytes' = replyBytes \o Terminated(<<line>>)
  /\ incoming' = IF incoming = << >> THEN <<Terminated(<<line>>)>>
                 ELSE Front(incoming)
                        \o <<Last(incoming) \o Terminated(<<line>>)>>
  /\ UNCHANGED <<variant, connected, authenticated, commandCount,
                 lastCommand, cmds, xfers, dataSocket, wire, nLines, nFinal,
                 disciplined, buffer, emitted, loops, connectState,
                 connectTimer, closing, ensure, stack, removal, listData, pipe>>

\* connect() against a server that sends each reply after it has received
\* the command.
NextLogin ==
  \/ SocketData
  \/ \E n \in 1..(2 * Len(Terminated(<<G220h, G220>>))) : CutChunk(n)
  \/ \E line \in {R331, R230, R530} : LoginServerReplies(line)
  \/ \E i \in CmdIds : LoginCommandTimeout(i)
  \/ ConnectTimeout
  \/ SocketClose

SpecLogin == InitLogin /\ [][NextLogin]_vars

\* close(): nothing when the client is not connected; otherwise QUIT is sent
\* and awaited.
CmdQUIT == <<"QUIT">>

R221 == <<"2", "2", "1", " ">>

CallClose ==
  /\ closing.state = "idle"
  /\ LET Q == SendIn(Session, CmdQUIT)
     IN  Adopt(IF ~connected
               THEN [Session EXCEPT !.closing.state = "resolved"]
               ELSE [Q EXCEPT !.closing.state = "pending",
                              !.loops = @ \cup {[rest |-> << >>,
                                                 awaits |-> Len(Q.cmds),
                                                 stage |-> "QUIT"]}])
  /\ UNCHANGED <<dirVars, variant, xfers, dataSocket, nLines, nFinal,
                 disciplined, replyBytes, incoming, buffer, connectTimer>>

\* The server answers the oldest command it has not answered, as long as the
\* control socket is open and it has not seen QUIT: USER with 331, PASS with
\* 230 or 530, QUIT with 221.
ClosingServerReplies(line) ==
  /\ connected \/ closing.ended
  /\ ~closing.bye
  /\ server.answered < Len(wire)
  /\ LET verb == wire[server.answered + 1][1]
     IN  /\ line = (CASE verb = "USER" -> R331
                      [] verb = "QUIT" -> R221
                      [] OTHER -> line)
         /\ verb = "PASS" => line \in {R230, R530}
         /\ closing' = [closing EXCEPT !.bye = (verb = "QUIT")]
  /\ server' = [server EXCEPT !.answered = @ + 1]
  /\ replyBytes' = replyBytes \o Terminated(<<line>>)
  /\ incoming' = IF incoming = << >> THEN <<Terminated(<<line>>)>>
                 ELSE Front(incoming)
                        \o <<Last(incoming) \o Terminated(<<line>>)>>
  /\ UNCHANGED <<variant, connected, authenticated, commandCount,
                 lastCommand, cmds, xfers, dataSocket, wire, nLines, nFinal,
                 disciplined, buffer, emitted, loops, connectState,
                 connectTimer, ensure, stack, removal, listData, pipe>>

\* connect() and a close() the caller makes at any moment of it or after it,
\* every reply reaching the client in a chunk of its own or with the bytes
\* still on their way.
NextClose ==
  \/ SocketData
  \/ \E line \in {R331, R230, R530, R221} : ClosingServerReplies(line)
  \/ \E i \in CmdIds : LoginCommandTimeout(i)
  \/ ConnectTimeout
  \/ SocketClose
  \/ CallClose

SpecClose == InitLogin /\ [][NextClose]_vars

\* A caller that starts a transfer while connect() is still logging in, or
\* after the control connection was lost.
NextEarly ==
  \/ SocketData
  \/ \E n \in 1..(2 * Len(Terminated(<<G220h, G220>>))) : CutChunk(n)
  \/ \E line \in {R331, R230, R530} : LoginServerReplies(line)
  \/ SocketClose
  \/ \E op \in TransferOps : StartTransfer(op)

SpecEarly == InitLogin /\ [][NextEarly]_vars

\* Passive negotiation: the transfers of an awaiting caller, each PASV
\* answered by one of the server's 227 replies, every other command by 226.
PasvPending == \E i \in CmdIds : cmds[i].command = CmdPASV /\ cmds[i].listening

NextPassive ==
  \/ \E call \in CallerCalls :
       NoOperationInFlight /\ CallSendCommand(call.command, call.allowPreliminary)
  \/ \E op \in TransferOps : NoOperationInFlight /\ StartTransfer(op)
  \/ \E line \in PasvReplies \cup MalformedPasvReplies :
       PasvPending /\ DeliverLine(line)
  \/ (\E i \in CmdIds : cmds[i].listening) /\ ~PasvPending /\ DeliverLine(L226)
  \/ \E i \in CmdIds : CommandTimeout(i)
  \/ \E t \in XferIds : DataConnect(t)

SpecPassive == Init /\ [][NextPassive]_vars

\* The paths the caller hands to ensureDir: absolute and relative, with a
\* doubled slash, with an extension on the last name.
EnsurePaths ==
  {<<"/", "a", "/", "b", "/", "c">>,
   <<"a", "/", "b">>,
   <<"/", "a", "/", "/", "b">>,
   <<"/", "a", "/", "b", ".", "c">>,
   <<"a">>,
   <<"/">>}

\* Directories, as the names on the way from the root.
DirA == << <<"a">> >>
DirAB == << <<"a">>, <<"b">> >>
DirW == << <<"w">> >>
DirWA == << <<"w">>, <<"a">> >>

\* The directories the server holds when the call is made.
ServerTrees ==
  {near \cup far :
     near \in {{}, {DirA}, {DirA, DirAB}},
     far \in {{}, {DirW}, {DirW, DirWA}}}

\* An authenticated session on a server holding some directories, of which
\* at most one is closed to writing, the session in one of them.
InitEnsureDir ==
  /\ variant \in Variants
  /\ connected = TRUE
  /\ authenticated = TRUE
  /\ commandCount = 2
  /\ lastCommand = CmdPASS
  /\ cmds = << >>
  /\ xfers = << >>
  /\ dataSocket = 0
  /\ wire = << >>
  /\ nLines = 0
  /\ nFinal = 0
  /\ disciplined = TRUE
  /\ replyBytes = << >>
  /\ incoming = << >>
  /\ buffer = << >>
  /\ emitted = << >>
  /\ loops = {}
  /\ connectState = "resolved"
  /\ connectTimer = FALSE
  /\ \E dirs \in ServerTrees :
       \E cwd \in {Root, DirW} \cap (dirs \cup {Root}) :
         \E denied \in {{}} \cup {{d} : d \in dirs \cup {Root}} :
           server = [dirs |-> dirs, files |-> {}, cwd |-> cwd,
                     denied |-> denied, answered |-> 0]
  /\ ensure = NoEnsure
  /\ stack = << >>
  /\ removal = NoRemoval
  /\ listData = NoListData
  /\ pipe = << >>
  /\ closing = NoClosing

\* The caller calls ensureDir(path, recursive, isFilePath).
CallEnsureDir(path, recursive, isFilePath) ==
  /\ ensure.state = "idle"
  /\ LET S == [DirSession EXCEPT !.ensure =
                 [state |-> "pending", path |-> path, recursive |-> recursive,
                  isFilePath |-> IF variant = "2.1.0" THEN isFilePath
                                 ELSE HasExtension(path),
                  cwd |-> server.cwd, dirs |-> server.dirs, err |-> << >>]]
     IN  AdoptDir(DrainDir(EnterEnsureDir(S, path, recursive, isFilePath)))
  /\ UNCHANGED <<variant, connected, authenticated, xfers, dataSocket, nLines,
                 nFinal, disciplined, replyBytes, incoming, buffer, loops,
                 connectState, connectTimer, closing, server, removal, listData,
                 pipe>>

\* The server executes the oldest command it has not answered; its reply
\* reaches the listeners, and the invocation that awaited the command goes on.
ServerAnswers ==
  /\ connected
  /\ server.answered < Len(wire)
  /\ LET done == Execute(server, wire[server.answered + 1])
     IN  /\ server' = [done.server EXCEPT !.answered = @ + 1]
         /\ AdoptDir(DrainDir(EmitIn(DirSession, done.line)))
  /\ UNCHANGED <<variant, connected, authenticated, xfers, dataSocket, nLines,
                 nFinal, disciplined, replyBytes, incoming, buffer, loops,
                 connectState, connectTimer, closing, removal, listData, pipe>>

\* ensureDir on a server that answers every command within its deadline.
NextEnsureDir ==
  \/ \E path \in EnsurePaths, recursive \in BOOLEAN, isFilePath \in BOOLEAN :
       CallEnsureDir(path, recursive, isFilePath)
  \/ ServerAnswers

SpecEnsureDir == InitEnsureDir /\ [][NextEnsureDir]_vars

\* The paths the caller hands to removeDir.
RemovePaths ==
  {<<"/", "r">>, <<"r", "/">>, <<"/", "x">>}

DirR == << <<"r">> >>
DirRS == << <<"r">>, <<"s">> >>
FileRF == << <<"r">>, <<"f">> >>
FileRG == << <<"r">>, <<"g">> >>
FileRH == << <<"r">>, <<".", "h">> >>
FileRSG == << <<"r">>, <<"s">>, <<"g">> >>

\* What the server holds when the call is made: /r empty, with a file, with
\* two files, with a file and a subdirectory that is empty or holds a file,
\* with a file whose name starts with a dot.
RemoveTrees ==
  {[dirs |-> {DirR}, files |-> {}],
   [dirs |-> {DirR}, files |-> {FileRF}],
   [dirs |-> {DirR}, files |-> {FileRF, FileRG}],
   [dirs |-> {DirR, DirRS}, files |-> {FileRF}],
   [dirs |-> {DirR, DirRS}, files |-> {FileRF, FileRSG}],
   [dirs |-> {DirR}, files |-> {FileRF, FileRH}]}

\* An authenticated 2.2.0 session (2.1.0 has no removeDir) on a server
\* holding one of the trees, at most one directory of it closed to writing.
InitRemoveDir ==
  /\ variant = "2.2.0"
  /\ connected = TRUE
  /\ authenticated = TRUE
  /\ commandCount = 2
  /\ lastCommand = CmdPASS
  /\ cmds = << >>
  /\ xfers = << >>
  /\ dataSocket = 0
  /\ wire = << >>
  /\ nLines = 0
  /\ nFinal = 0
  /\ disciplined = TRUE
  /\ replyBytes = << >>
  /\ incoming = << >>
  /\ buffer = << >>
  /\ emitted = << >>
  /\ loops = {}
  /\ connectState = "resolved"
  /\ connectTimer = FALSE
  /\ \E tree \in RemoveTrees :
       \E denied \in {{}} \cup {{d} : d \in tree.dirs \cup {Root}} :
         server = [dirs |-> tree.dirs, files |-> tree.files, cwd |-> Root,
                   denied |-> denied, answered |-> 0]
  /\ ensure = NoEnsure
  /\ stack = << >>
  /\ removal = NoRemoval
  /\ listData = NoListData
  /\ pipe = << >>
  /\ closing = NoClosing

\* The caller calls removeDir(path, recursive).
CallRemoveDir(path, recursive) ==
  /\ removal.state = "idle"
  /\ LET S == [RemoveSession EXCEPT !.removal =
                 [state |-> "pending", path |-> path, recursive |-> recursive,
                  err |-> << >>, stack |-> << >>, dirs |-> server.dirs,
                  files |-> server.files, listings |-> << >>]]
     IN  AdoptRemoving(DrainRemoving(EnterRemoveDir(S, path, recursive)))
  /\ UNCHANGED <<variant, connected, authenticated, xfers, dataSocket, nLines,
                 nFinal, disciplined, connectVars, server, ensure, stack,
                 pipe>>

\* The ways a server may order the entries of a directory in its listing.
Orders(set) ==
  {order \in [1..Cardinality(set) -> set] :
     \A i, j \in 1..Cardinality(set) : order[i] = order[j] => i = j}

\* One line of a listing per entry: its type, a blank, its name.
RECURSIVE ListingOf(_, _)
ListingOf(srv, order) ==
  IF order = << >> THEN << >>
  ELSE <<IF Head(order) \in srv.dirs THEN "d" ELSE "-", " ">>
         \o Last(Head(order)) \o <<CR, LF>> \o ListingOf(srv, Tail(order))

\* The server executes the oldest command it has not executed and sends its
\* reply: to PASV the address it listens on; to LIST the 150, the listing on
\* the data connection, which it closes, and the 226.
ServerExecutes ==
  /\ server.answered < Len(wire)
  /\ LET command == wire[server.answered + 1]
         dir == ResolvePath(server.cwd, Tail(command))
         done == Execute(server, command)
     IN  CASE command[1] = "PASV" ->
                /\ pipe' = Append(pipe, L227)
                /\ server' = [server EXCEPT !.answered = @ + 1]
                /\ UNCHANGED listData
           [] command[1] = "LIST" ->
                /\ server' = [server EXCEPT !.answered = @ + 1]
                /\ IF listData.state # "connected" \/ listData.ended
                   THEN pipe' = Append(pipe, L425) /\ UNCHANGED listData
                   ELSE IF ~DirExists(server, dir)
                   THEN /\ pipe' = Append(pipe, L550nodir)
                        /\ listData' = [listData EXCEPT !.ended = TRUE]
                   ELSE \E order \in Orders(EntriesIn(server, dir)) :
                          /\ pipe' = pipe \o <<L150, L226>>
                          /\ listData' = [listData EXCEPT
                                            !.sent = ListingOf(server, order),
                                            !.ended = TRUE]
           [] OTHER ->
                /\ pipe' = Append(pipe, done.line)
                /\ server' = [done.server EXCEPT !.answered = @ + 1]
                /\ UNCHANGED listData
  /\ UNCHANGED <<variant, connected, authenticated, commandCount, lastCommand,
                 cmds, xfers, dataSocket, wire, nLines, nFinal, disciplined,
                 connectVars, ensure, stack, removal>>

\* The control socket emits the oldest reply line it holds: the listeners
\* hear it, and the invocation that awaited a command it settles goes on.
ControlLine ==
  /\ pipe # << >>
  /\ pipe' = Tail(pipe)
  /\ AdoptRemoving(DrainRemoving(EmitIn(RemoveSession, Head(pipe))))
  /\ UNCHANGED <<variant, connected, authenticated, xfers, dataSocket, nLines,
                 nFinal, disciplined, replyBytes, incoming, buffer, loops,
                 connectState, connectTimer, closing, server, ensure, stack>>

\* The connect callback of list(): LIST is written, nothing listens for its
\* replies.
ListConnects ==
  /\ listData.state = "connecting"
  /\ listData' = [listData EXCEPT !.state = "connected"]
  /\ wire' = Append(wire, <<"LIST">> \o Last(removal.stack).path)
  /\ commandCount' = commandCount + 1
  /\ UNCHANGED <<variant, connected, authenticated, lastCommand, cmds, xfers,
                 dataSocket, nLines, nFinal, disciplined, connectVars, server,
                 ensure, stack, removal, pipe>>

\* The 'data' events and the 'close' event of the data socket: the chunks
\* are kept and the 10 ms timer is started.
ListCloses ==
  /\ listData.state = "connected"
  /\ listData.ended
  /\ listData' = [listData EXCEPT !.state = "closed"]
  /\ UNCHANGED <<variant, connected, authenticated, commandCount, lastCommand,
                 cmds, xfers, dataSocket, wire, nLines, nFinal, disciplined,
                 connectVars, server, ensure, stack, removal, pipe>>

\* The timer fires: list() resolves with the listing and removeDir goes on.
ListDelayElapsed ==
  /\ listData.state = "closed"
  /\ AdoptRemoving(DrainRemoving(ListResolved(
       [RemoveSession EXCEPT !.listData = NoListData], listData.sent)))
  /\ UNCHANGED <<variant, connected, authenticated, xfers, dataSocket, nLines,
                 nFinal, disciplined, replyBytes, incoming, buffer, loops,
                 connectState, connectTimer, closing, server, ensure, stack, pipe>>

\* The 'error' event of the data socket rejects list().
ListError ==
  /\ listData.state \in {"connecting", "connected"}
  /\ AdoptRemoving(DrainRemoving(CatchRemoving(
       [RemoveSession EXCEPT !.listData = NoListData,
                             !.removal.stack = Front(@)],
       Last(removal.stack), ECONNRESET)))
  /\ UNCHANGED <<variant, connected, authenticated, xfers, dataSocket, nLines,
                 nFinal, disciplined, replyBytes, incoming, buffer, loops,
                 connectState, connectTimer, closing, server, ensure, stack, pipe>>

NextRemoveDir ==
  \/ \E path \in RemovePaths, recursive \in BOOLEAN :
       CallRemoveDir(path, recursive)
  \/ ServerExecutes
  \/ ControlLine
  \/ ListConnects
  \/ ListCloses
  \/ ListDelayElapsed
  \/ ListError

SpecRemoveDir == InitRemoveDir /\ [][NextRemoveDir]_vars

Next ==
  \/ \E call \in CallerCalls :
       CallSendCommand(call.command, call.allowPreliminary)
  \/ \E op \in TransferOps : StartTransfer(op)
  \/ \E line \in ServerLines : DeliverLine(line)
  \/ \E i \in CmdIds : CommandTimeout(i)
  \/ \E t \in XferIds : DataConnect(t)
  \/ \E t \in XferIds : DataChunk(t)
  \/ \E t \in XferIds : DataError(t)
  \/ \E t \in XferIds : DataClose(t)
  \/ \E t \in XferIds : FinalTimeout(t)
  \/ \E t \in XferIds : DelayElapsed(t)
  \/ SocketClose

Spec == Init /\ [][Next]_vars

\* The correlator alone: sendCommand calls (awaited or not), reply lines,
\* deadlines and the loss of the control connection.
NextCorrelator ==
  \/ \E call \in CallerCalls :
       Len(cmds) < MaxCalls /\ CallSendCommand(call.command, call.allowPreliminary)
  \/ \E line \in ServerLines : DeliverLine(line)
  \/ \E i \in CmdIds : CommandTimeout(i)
  \/ SocketClose

SpecCorrelator == Init /\ [][NextCorrelator]_vars

\* The same with the event loop's guarantee that an armed timer fires.
FairCorrelator ==
  /\ SpecCorrelator
  /\ \A i \in 1..MaxCmd : WF_vars(i \in CmdIds /\ CommandTimeout(i))

\* The correlator of a caller that awaits each command, on a server that
\* also sends lines without a status code.
NextMalformed ==
  \/ \E call \in CallerCalls :
       NoOperationInFlight /\ CallSendCommand(call.command, call.allowPreliminary)
  \/ \E line \in ServerLines \cup MalformedLines : DeliverLine(line)
  \/ \E i \in CmdIds : CommandTimeout(i)

SpecMalformed == Init /\ [][NextMalformed]_vars

\* A caller that awaits each operation before it starts the next.
NextAwaiting ==
  \/ \E call \in CallerCalls :
       NoOperationInFlight /\ CallSendCommand(call.command, call.allowPreliminary)
  \/ \E op \in TransferOps : NoOperationInFlight /\ StartTransfer(op)
  \/ \E line \in ServerLines : DeliverLine(line)
  \/ \E i \in CmdIds : CommandTimeout(i)
  \/ \E t \in XferIds : DataConnect(t)
  \/ \E t \in XferIds : DataChunk(t)
  \/ \E t \in XferIds : DataError(t)
  \/ \E t \in XferIds : DataClose(t)
  \/ \E t \in XferIds : FinalTimeout(t)
  \/ \E t \in XferIds : DelayElapsed(t)
  \/ SocketClose

SpecAwaiting == Init /\ [][NextAwaiting]_vars

\* A caller that starts a transfer without awaiting the one before: two
\* transfers at a time on one session, the server answering PASV and
\* refusing or completing the transfers.
OverlapLines == {L227, L226, L550}

NextOverlap ==
  \/ \E op \in TransferOps :
       /\ Len(xfers) < MaxOverlap
       /\ Len(cmds) + ReservedCmds + CommandsOfTransfer <= MaxOverlapCmd
       /\ BeginTransfer(op)
  \/ \E line \in OverlapLines : DeliverLine(line)
  \/ \E t \in XferIds : DataConnect(t)
  \/ \E t \in XferIds : DataChunk(t)
  \/ \E t \in XferIds : DataError(t)
  \/ \E t \in XferIds : DataClose(t)
  \/ \E t \in XferIds : FinalTimeout(t)
  \/ \E t \in XferIds : DelayElapsed(t)

SpecOverlap == Init /\ [][NextOverlap]_vars

\* The same with the event loop's guarantees: an armed timer fires, a data
\* connection under way connects or fails, and a data socket that is open or
\* has failed emits 'close'.
FairAwaiting ==
  /\ SpecAwaiting
  /\ \A i \in 1..MaxCmd : WF_vars(i \in CmdIds /\ CommandTimeout(i))
  /\ \A t \in 1..MaxXfer :
       /\ WF_vars(t \in XferIds /\ FinalTimeout(t))
       /\ WF_vars(t \in XferIds /\ DelayElapsed(t))
       /\ WF_vars(t \in XferIds /\ (DataConnect(t) \/ DataError(t)))
       /\ WF_vars(t \in XferIds /\ DataClose(t))

TypeOK ==
  /\ variant \in Variants
  /\ Len(cmds) <= MaxCmd
  /\ Len(xfers) <= MaxXfer
  /\ nLines <= MaxLines

\* ------------------------------------------------------------- properties
\* The vocabulary of the properties, stated on the wire format.
HyphenLine(line) == Len(line) >= 4 /\ line[4] = "-"

TerminalLine(line) == Len(line) >= 4 /\ line[4] = " "

CodeOf(line) == 100 * DigitVal(line[1]) + 10 * DigitVal(line[2]) + DigitVal(line[3])

TextOf(line) == SubSeq(line, 5, Len(line))

Pending(i) == cmds[i].state = "pending"

\* Command i is settled, in the next state, by this line's code and text.
SettledBy(i, line) ==
  /\ cmds'[i].state # "pending"
  /\ ~cmds'[i].listening
  /\ cmds'[i].code = CodeOf(line)
  /\ cmds'[i].message = TextOf(line)

\* Command i is left pending, with its listener, in the next state.
KeptWaiting(i) ==
  /\ cmds'[i].state = "pending"
  /\ cmds'[i].listening

\* A promise settles once: a settled command keeps its outcome.
SettledForGood ==
  \A i \in CmdIds :
    ~Pending(i) =>
      /\ cmds'[i].state = cmds[i].state
      /\ cmds'[i].err = cmds[i].err
      /\ cmds'[i].code = cmds[i].code
      /\ cmds'[i].message = cmds[i].message

\* C2 (as claimed): a sendCommand call made while another command is pending
\* fails fast with ProtocolViolation and is not written to the control
\* channel.
C2_SecondCommandFailsFast ==
  \A i \in CmdIds :
    cmds[i].overlaps =>
      /\ cmds[i].state = "rejected"
      /\ cmds[i].err = "ProtocolViolation"
      /\ cmds[i].wire = 0

\* C3 (as claimed): a command is settled by a terminal reply or, failing
\* that, rejected with CommandTimeout when its deadline elapses: with timers
\* that fire, no command stays pending for ever.
C3_NoReplyMeansTimeout ==
  \A i \in 1..MaxCmd :
    (i \in CmdIds /\ Pending(i)) ~> (i \in CmdIds /\ ~Pending(i))

\* The last line of a multi-line reply arrives at the listener of command i:
\* a terminal line whose code is that of the hyphen line heard just before.
ClosesMultiline(i, line) ==
  /\ cmds[i].listening
  /\ TerminalLine(line)
  /\ cmds[i].continuation = CodeOf(line)

\* C4 (as claimed): every multi-line reply settles the pending command, with
\* the code and message of its terminal line; no hyphen line settles it; it
\* is settled once.
C4_OriginalStep ==
  /\ SettledForGood
  /\ \A line \in ServerLines :
       DeliverLine(line) =>
         \A i \in CmdIds :
           /\ (cmds[i].listening /\ HyphenLine(line)) => KeptWaiting(i)
           /\ ClosesMultiline(i, line) => SettledBy(i, line)

C4_EveryMultilineSettles == [][C4_OriginalStep]_vars

\* C4 (amended): the same, except that a multi-line 1xx reply to a command
\* that tolerates preliminary replies does not settle it: it stays pending.
C4_AmendedStep ==
  /\ SettledForGood
  /\ \A line \in ServerLines :
       DeliverLine(line) =>
         \A i \in CmdIds :
           /\ (cmds[i].listening /\ HyphenLine(line)) => KeptWaiting(i)
           /\ ClosesMultiline(i, line) =>
                IF cmds[i].allowPreliminary /\ CodeOf(line) \in 100..199
                THEN KeptWaiting(i)
                ELSE SettledBy(i, line)

C4_MultilineSettlesOnce == [][C4_AmendedStep]_vars

\* C4's case: a command settled by the terminal line of a multi-line reply.
C4_Witness ==
  \E i \in CmdIds :
    /\ cmds[i].multiline
    /\ cmds[i].state = "resolved"
    /\ cmds[i].code = 226

\* C5: no 1xx terminal reply settles a command sent with
\* allowPreliminary = true; the terminal reply of code 200 or above that
\* arrives while it is pending settles it.
C5_Step ==
  \A line \in ServerLines :
    DeliverLine(line) =>
      \A i \in CmdIds :
        (cmds[i].listening /\ cmds[i].allowPreliminary /\ TerminalLine(line)) =>
          IF CodeOf(line) \in 100..199 THEN KeptWaiting(i)
          ELSE CodeOf(line) >= 200 => SettledBy(i, line)

C5_PreliminaryDoesNotSettle == [][C5_Step]_vars

\* C5's case: a tolerant command was kept waiting on a 1xx reply and then
\* settled by the reply that followed.
C5_Witness ==
  \E i \in CmdIds :
    /\ cmds[i].allowPreliminary
    /\ cmds[i].preliminaries >= 1
    /\ cmds[i].state = "resolved"
    /\ cmds[i].code = 226

\* C6: the terminal reply that settles a pending command resolves it with
\* that line's code and message when the code is in 200..399 and rejects it
\* with an FTPError carrying them when the code is 400 or above.
C6_Step ==
  \A line \in ServerLines :
    DeliverLine(line) =>
      \A i \in CmdIds :
        (/\ cmds[i].listening
         /\ TerminalLine(line)
         /\ ~(cmds[i].allowPreliminary /\ CodeOf(line) \in 100..199)) =>
          /\ CodeOf(line) \in 200..399 =>
               (SettledBy(i, line) /\ cmds'[i].state = "resolved"
                                   /\ cmds'[i].err = "none")
          /\ CodeOf(line) >= 400 =>
               (SettledBy(i, line) /\ cmds'[i].state = "rejected"
                                   /\ cmds'[i].err = "FTPError")

C6_SettlingReplyDecides == [][C6_Step]_vars

\* C6's case: one command resolved by a 2xx reply, another rejected by a 5xx.
C6_Witness ==
  /\ \E i \in CmdIds :
       cmds[i].state = "resolved" /\ cmds[i].code = 226 /\ cmds[i].message = <<"o", "k">>
  /\ \E j \in CmdIds :
       /\ cmds[j].state = "rejected" /\ cmds[j].err = "FTPError"
       /\ cmds[j].code = 550 /\ cmds[j].message = <<"n", "o">>

\* C1 (as claimed): with a caller that awaits each operation, at most one
\* sendCommand response listener is registered.
C1_AtMostOnePending ==
  disciplined => Cardinality({i \in CmdIds : cmds[i].listening}) <= 1

\* The transfer command of t was written and its answer is still to come.
AwaitsAnswer(t) == xfers[t].wire # 0 /\ xfers[t].reply = 0

\* C7 (as claimed): the reply of code 400 or above that answers the transfer
\* command of a transfer still under way makes the transfer fail with that
\* code and message.
C7_Step ==
  \A line \in ServerLines :
    DeliverLine(line) =>
      \A t \in XferIds :
        (/\ xfers[t].outcome = "pending"
         /\ AwaitsAnswer(t)
         /\ TerminalLine(line)
         /\ CodeOf(line) >= 400) =>
          /\ xfers'[t].outcome = "rejected"
          /\ xfers'[t].code = CodeOf(line)
          /\ xfers'[t].message = TextOf(line)

C7_FailureReplyFailsTransfer == [][C7_Step]_vars

\* The secondary deadline of t is running: the data channel has closed and
\* the timer set on its close has not fired.
DeadlineRunning(t) ==
  xfers[t].phase = "closed" /\ (xfers[t].finalTimer \/ xfers[t].delayTimer)

\* C8 (as claimed): once the data channel of a transfer has closed (b) and
\* its final reply has been delivered (c), in either order, the transfer is
\* settled according to the code of (c) without waiting for the secondary
\* deadline (transfers that a data-channel error or a command deadline
\* failed are left aside).
C8_JoinedOnBothEvents ==
  \A t \in XferIds :
    (/\ DeadlineRunning(t)
     /\ xfers[t].reply # 0
     /\ xfers[t].err \notin {"DataChannelError", "CommandTimeout"}) =>
      IF xfers[t].reply < 400
      THEN xfers[t].outcome = "resolved"
      ELSE xfers[t].outcome = "rejected" /\ xfers[t].code = xfers[t].reply

\* C9 (as claimed): when the secondary deadline of a transfer elapses with
\* the transfer unsettled and no final reply delivered, the transfer
\* resolves, whatever its kind and however many bytes it moved.
C9_Step ==
  \A t \in XferIds :
    (/\ FinalTimeout(t) \/ DelayElapsed(t)
     /\ xfers[t].outcome = "pending"
     /\ xfers[t].reply = 0) =>
      xfers'[t].outcome = "resolved"

C9_DeadlineResolves == [][C9_Step]_vars

\* C11: a data-channel error that strikes a transfer still under way rejects
\* it with DataChannelError in that very step, whether its transfer command
\* is unsent, unanswered, answered by a preliminary reply or answered by its
\* final reply.
C11_Step ==
  \A t \in XferIds :
    (DataError(t) /\ xfers[t].outcome = "pending") =>
      /\ xfers'[t].outcome = "rejected"
      /\ xfers'[t].err = "DataChannelError"

C11_DataErrorFailsTransfer == [][C11_Step]_vars

\* C11's case: the data channel failed after the final reply to the transfer
\* command had been delivered, and the transfer failed with DataChannelError.
C11_Witness ==
  \E t \in XferIds :
    /\ xfers[t].errorAt = "final"
    /\ xfers[t].reply = 226
    /\ xfers[t].outcome = "rejected"
    /\ xfers[t].err = "DataChannelError"

\* C12 (as claimed): once a transfer has settled, no response listener that
\* was registered for it (by its PASV command, by its transfer command or as
\* its final-reply listener) is still registered.
C12_SettledTransferHoldsNoListener ==
  \A t \in XferIds :
    xfers[t].outcome # "pending" =>
      /\ ~xfers[t].finalListening
      /\ \A i \in CmdIds : cmds[i].owner = t => ~cmds[i].listening

\* An in-order server answers the k-th command written with the k-th final
\* reply it sends: the line being delivered belongs to the reply to command
\* number nFinal + 1.
AnswersCommand == nFinal + 1

\* C13 (as claimed): a command is settled only by a line of the reply to
\* itself, never by a line of the reply to a command written before it (one
\* that timed out, or the transfer command of a transfer already settled).
C13_Step ==
  \A line \in ServerLines :
    DeliverLine(line) =>
      \A i \in CmdIds :
        (Pending(i) /\ ~Pending(i)') => cmds[i].wire <= AnswersCommand

C13_RepliesInIssueOrder == [][C13_Step]_vars

\* C14 (as claimed): with a caller that awaits each operation, no command is
\* written to the control channel while the transfer command of an earlier
\* transfer has not had its terminal reply.
C14_Step ==
  Len(wire') > Len(wire) => \A t \in XferIds : ~AwaitsAnswer(t)

C14_NoCommandBeforeFinalReply == [][C14_Step]_vars

\* The lines a byte sequence holds, in order: what stands between its
\* terminators, empty lines left out; and what follows its last terminator.
RECURSIVE LinesOf(_, _)
LinesOf(bytes, line) ==
  IF bytes = << >> THEN << >>
  ELSE IF Len(bytes) >= 2 /\ bytes[1] = CR /\ bytes[2] = LF
  THEN (IF line = << >> THEN << >> ELSE <<line>>)
         \o LinesOf(SubSeq(bytes, 3, Len(bytes)), << >>)
  ELSE LinesOf(Tail(bytes), Append(line, Head(bytes)))

RECURSIVE PartialOf(_, _)
PartialOf(bytes, line) ==
  IF bytes = << >> THEN line
  ELSE IF Len(bytes) >= 2 /\ bytes[1] = CR /\ bytes[2] = LF
  THEN PartialOf(SubSeq(bytes, 3, Len(bytes)), << >>)
  ELSE PartialOf(Tail(bytes), Append(line, Head(bytes)))

\* All the bytes have arrived and no invocation of the handler is suspended.
HandlerAtRest == incoming = << >> /\ loops = {}

\* C15 (as claimed): however the bytes were split into chunks, the lines
\* emitted are those of the unsplit bytes, in their order, and the buffer
\* holds their trailing partial line.
C15_ChunkingInvariant ==
  HandlerAtRest =>
    /\ emitted = LinesOf(replyBytes, << >>)
    /\ buffer = PartialOf(replyBytes, << >>)

\* The dotted host of the group g.
Dotted(g) ==
  ToDecimal(g[1]) \o <<".">> \o ToDecimal(g[2]) \o <<".">>
    \o ToDecimal(g[3]) \o <<".">> \o ToDecimal(g[4])

\* C16: when the reply to PASV announces the group (h1,h2,h3,h4,p1,p2), the
\* transfer connects to host h1.h2.h3.h4, port p1 * 256 + p2.
C16_PassiveEndpoint ==
  \A t \in XferIds :
    (xfers[t].pasv # 0 /\ cmds[xfers[t].pasv].state = "resolved") =>
      \A worded \in BOOLEAN, g \in PasvGroups :
        cmds[xfers[t].pasv].message = PasvMessage(worded, g) =>
          /\ xfers[t].phase # "pasv"
          /\ xfers[t].host = Dotted(g)
          /\ xfers[t].port = g[5] * 256 + g[6]

\* C16's case: (10,0,0,5,78,23) was announced within text and the transfer
\* connects to 10.0.0.5, port 19991.
C16_Witness ==
  \E t \in XferIds :
    /\ xfers[t].pasv # 0
    /\ cmds[xfers[t].pasv].message =
         <<"o", "k", " ", "(", "1", "0", ",", "0", ",", "0", ",", "5", ",",
           "7", "8", ",", "2", "3", ")", ".">>
    /\ xfers[t].phase = "connecting"
    /\ xfers[t].host = <<"1", "0", ".", "0", ".", "0", ".", "5">>
    /\ xfers[t].port = 19991

\* The PASV command of transfer t was answered by a successful reply that
\* holds no six-number group.
MalformedAnswered(t) ==
  /\ xfers[t].pasv # 0
  /\ cmds[xfers[t].pasv].state = "resolved"
  /\ \E line \in MalformedPasvReplies :
       cmds[xfers[t].pasv].message = TextOf(line)

\* C17: a transfer whose PASV reply holds no six-number group fails with the
\* parse error, opens no data connection and writes no transfer command; the
\* next command of the caller is written, and settled by its reply.
C17_Failed ==
  \A t \in XferIds :
    MalformedAnswered(t) =>
      /\ xfers[t].outcome = "rejected"
      /\ xfers[t].err = "PasvParse"
      /\ xfers[t].phase = "none"
      /\ ~xfers[t].commandSent
      /\ xfers[t].wire = 0
      /\ xfers[t].cmd = 0
      /\ xfers[t].host = << >>
      /\ dataSocket # t

C17_Step ==
  (\E t \in XferIds : MalformedAnswered(t)) =>
    /\ \A call \in CallerCalls :
         CallSendCommand(call.command, call.allowPreliminary) =>
           /\ wire' = Append(wire, call.command)
           /\ cmds'[Len(cmds')].state = "pending"
           /\ cmds'[Len(cmds')].listening
    /\ DeliverLine(L226) =>
         \A i \in CmdIds : cmds[i].listening => SettledBy(i, L226)

C17_MalformedPassiveReply == []C17_Failed /\ [][C17_Step]_vars

\* C17's case: the transfer failed on its PASV reply, and the command the
\* caller sent next was written right after PASV and resolved by its reply.
C17_Witness ==
  \E t \in XferIds, i \in CmdIds :
    /\ MalformedAnswered(t)
    /\ xfers[t].err = "PasvParse"
    /\ cmds[i].owner = 0
    /\ cmds[i].wire = 2
    /\ cmds[i].state = "resolved"
    /\ cmds[i].code = 226
    /\ Len(wire) = 2

\* The directory the caller's ensureDir call names, resolved against the
\* working directory at the time of the call, and the directory from which
\* its names count (the root for an absolute path).
TargetDir == ResolvePath(ensure.cwd, ensure.path)

BaseDir == IF Head(ensure.path) = "/" THEN Root ELSE ensure.cwd

\* The directories on the way from the base to the target, shortest first.
ExpectedDirs ==
  [k \in 1..(Len(TargetDir) - Len(BaseDir)) |->
     SubSeq(TargetDir, 1, Len(BaseDir) + k)]

\* A recursive call for a directory path (not one whose parent is asked for)
\* has been made, none of whose directories existed.
NoneExisted ==
  /\ ensure.state # "idle"
  /\ ensure.recursive
  /\ ~ensure.isFilePath
  /\ \A k \in DOMAIN ExpectedDirs : ExpectedDirs[k] \notin ensure.dirs

IsMkd(command) == command[1] = "MKD"

\* The directories of the MKD commands written, in the order of writing, as
\* a server in the working directory of the call reads them.
MkdDirs ==
  LET mkds == SelectSeq(wire, IsMkd)
  IN  [m \in DOMAIN mkds |-> ResolvePath(ensure.cwd, Tail(mkds[m]))]

\* C18: a call on a path of n names none of which exists has, when it
\* resolves, written exactly n MKD commands, from the shortest prefix to the
\* full path; each MKD was written when the server had answered every
\* command written before it.
C18_Created ==
  (NoneExisted /\ ensure.state = "resolved") => MkdDirs = ExpectedDirs

C18_Step ==
  (Len(wire') > Len(wire) /\ IsMkd(wire'[Len(wire')])) =>
    server'.answered = Len(wire') - 1

C19_ResolvedMeansExists ==
  (/\ ensure.state = "resolved"
   /\ ensure.recursive
   /\ ~ensure.isFilePath
   /\ server.denied = {}) => DirExists(server, TargetDir)

\* A directory creation of the call failed for a reason other than that the
\* directory exists already.
CreationRefused ==
  \E i \in CmdIds :
    /\ IsMkd(cmds[i].command)
    /\ cmds[i].state = "rejected"
    /\ cmds[i].message # TextOf(L550exists)

\* C20 (as claimed): a call in which a directory creation failed for
\* another reason than that the directory exists does not resolve: the
\* failure reaches the caller.
C20_OtherFailuresPropagate ==
  (ensure.state # "idle" /\ CreationRefused) => ensure.state # "resolved"

\* ------------------------------------------------------------- removeDir
\* The commands of a removeDir call other than PASV, in the order written,
\* each as its verb and the path the server reads.
IsNotPasv(command) == command[1] # "PASV"

Issued ==
  LET written == SelectSeq(wire, IsNotPasv)
  IN  [k \in DOMAIN written |->
         <<written[k][1], ResolvePath(Root, Tail(written[k]))>>]

IsPrefix(a, b) == Len(a) <= Len(b) /\ a = SubSeq(b, 1, Len(a))

Below(dir, path) == Len(path) > Len(dir) /\ SubSeq(path, 1, Len(dir)) = dir

RemovalTarget == ResolvePath(Root, removal.path)

\* Every command on an entry comes after the LIST of the directory holding
\* it; no command on anything below a directory comes after its RMD; nothing
\* comes after the RMD of the directory the call names.
InDependencyOrder ==
  \A k \in DOMAIN Issued :
    /\ Issued[k][2] # RemovalTarget =>
         \E j \in 1..(k - 1) : Issued[j] = <<"LIST", Front(Issued[k][2])>>
    /\ Issued[k][1] = "RMD" =>
         \A j \in (k + 1)..Len(Issued) : ~Below(Issued[k][2], Issued[j][2])
    /\ Issued[k] = <<"RMD", RemovalTarget>> => k = Len(Issued)

\* When RMD is written, every command of the call written before it has
\* settled and no list() is under way.
RmdAfterCompletion ==
  (Len(wire') = Len(wire) + 1 /\ wire'[Len(wire')][1] = "RMD") =>
    /\ \A i \in DOMAIN cmds : cmds'[i].state # "pending"
    /\ listData'.state = "none"

\* /r holds the file f and the empty directory s, and the call is
\* removeDir('/r', true) (or 'r/').
OneFileOneEmptyDir ==
  /\ removal.state # "idle"
  /\ removal.recursive
  /\ RemovalTarget = DirR
  /\ removal.dirs = {DirR, DirRS}
  /\ removal.files = {FileRF}

FileFirst ==
  << <<"LIST", DirR>>, <<"DELE", FileRF>>, <<"LIST", DirRS>>,
     <<"RMD", DirRS>>, <<"RMD", DirR>> >>

DirFirst ==
  << <<"LIST", DirR>>, <<"LIST", DirRS>>, <<"RMD", DirRS>>,
     <<"DELE", FileRF>>, <<"RMD", DirR>> >>

\* The listing of /r that the call received names the file first.
ListedFileFirst ==
  /\ removal.listings # << >>
  /\ ListingEntries(removal.path, removal.listings[1])[1].path
       = CollapseSlashes(removal.path \o <<"/", "f">>)

C21_Ordered ==
  /\ removal.recursive => InDependencyOrder
  /\ OneFileOneEmptyDir =>
       /\ IsPrefix(Issued, FileFirst) \/ IsPrefix(Issued, DirFirst)
       /\ ListedFileFirst => IsPrefix(Issued, FileFirst)
       /\ (removal.listings # << >> /\ ~ListedFileFirst) =>
            IsPrefix(Issued, DirFirst)
       /\ removal.state = "resolved" => Issued \in {FileFirst, DirFirst}

RECURSIVE Refused(_, _, _)
Refused(commands, lines, k) ==
  IF commands = << >> \/ lines = << >> THEN {}
  ELSE LET n == IF Head(commands)[1] = "LIST" /\ ReplyCode(Head(lines)) = 150
                THEN 2 ELSE 1
       IN  (IF ReplyCode(Head(lines)) >= 400 THEN {k} ELSE {})
             \cup Refused(Tail(commands), SubSeq(lines, n + 1, Len(lines)),
                          k + 1)

ServerRefused == Refused(wire, emitted \o pipe, 1)

\* The data connection of a list() of the call failed.
DataFailed == Includes(removal.err, ECONNRESET)

RmdOfTarget(command) ==
  command[1] = "RMD" /\ ResolvePath(Root, Tail(command)) = RemovalTarget

\* C22 (as claimed): a recursive removeDir in which the server refused
\* nothing but DELE commands (and then, the directory not being empty, the
\* RMD of the directory the call names) has attempted that RMD when it
\* settles; a recursive removeDir in which the server refused a PASV, a LIST
\* or an RMD, or in which a data connection failed, rejects.
C22_OnlyDeleteFailuresTolerated ==
  (removal.recursive /\ removal.state \in {"resolved", "rejected"}) =>
     /\ ( /\ ~DataFailed
          /\ \E k \in ServerRefused : wire[k][1] = "DELE"
          /\ \A k \in ServerRefused :
               wire[k][1] = "DELE" \/ RmdOfTarget(wire[k]) )
        => \E k \in DOMAIN wire : RmdOfTarget(wire[k])
     /\ ( \/ DataFailed
          \/ \E k \in ServerRefused : wire[k][1] \in {"PASV", "LIST", "RMD"} )
        => removal.state = "rejected"

\* ---------------------------------------------------------- credentials
Password == CmdPASS[2]

Shows(text, word) == \E i \in DOMAIN text : text[i] = word

\* What the client lets an observer see of its commands: the debug line of
\* each command sent, the message of each timeout error, the lines emitted
\* as 'response' events, the object getStats() returns.
Observable ==
  {DebugLine(cmds[i]) : i \in {j \in CmdIds : cmds[j].wire # 0}}
    \cup {cmds[i].errCommand : i \in CmdIds}
    \cup {emitted[i] : i \in DOMAIN emitted}
    \cup {GetStats.lastCommand}

\* C23 (as claimed): nothing observable shows the password; a PASS command
\* is shown as PASS ********.
C23_PasswordNeverObservable ==
  \A text \in Observable :
    /\ ~Shows(text, Password)
    /\ Shows(text, "PASS") => Shows(text, "********")

\* ------------------------------------------------------- malformed lines
\* C24 (as claimed): a line whose first three characters are not a status
\* code fails the command that is pending when it arrives and removes its
\* listener and its deadline; no other command changes.
C24_Step ==
  \A line \in MalformedLines :
    DeliverLine(line) =>
      \A i \in CmdIds :
        IF cmds[i].listening
        THEN /\ cmds'[i].state = "rejected"
             /\ cmds'[i].err # "none"
             /\ ~cmds'[i].listening
             /\ ~cmds'[i].timer
        ELSE cmds'[i] = cmds[i]

C24_MalformedLineFailsPending == [][C24_Step]_vars

\* ------------------------------------------------------------------ login
TimesWritten(command) ==
  Cardinality({k \in DOMAIN wire : wire[k] = command})

\* The login command was written once and resolved by a reply of this code.
AnsweredBy(command, code) ==
  \E i \in CmdIds :
    /\ cmds[i].command = command
    /\ cmds[i].state = "resolved"
    /\ cmds[i].code = code

LoginInOrder ==
  /\ TimesWritten(CmdUSER) <= 1
  /\ TimesWritten(CmdPASS) <= 1
  /\ TimesWritten(CmdUSER) = 1 =>
       \E k \in DOMAIN emitted : ReplyCode(emitted[k]) = 220
  /\ TimesWritten(CmdPASS) = 1 => AnsweredBy(CmdUSER, 331)
  /\ authenticated => AnsweredBy(CmdPASS, 230)
  /\ connectState = "resolved" => AnsweredBy(CmdPASS, 230)

\* C25 (as claimed): whatever the chunking, and whether the greeting has one
\* line or two, USER is written once and after a 220 line, PASS once and
\* after the reply to USER, and connect resolves, with authenticated set,
\* only after the success reply to PASS.
C25_LoginOnceInOrder == LoginInOrder

\* ------------------------------------------------- transfers before login
\* C26: upload, download and downloadStream called while the client is not
\* connected or not authenticated are rejected with 'Not connected to FTP
\* server'; the call writes no command, registers no listener, opens no data
\* connection and leaves the command counter as it was.
C26_Step ==
  \A op \in TransferOps \ {"list"} :
    (StartTransfer(op) /\ ~(connected /\ authenticated)) =>
      /\ Len(xfers') = Len(xfers) + 1
      /\ xfers'[Len(xfers')].outcome = "rejected"
      /\ xfers'[Len(xfers')].err = "NotConnectedToServer"
      /\ ~xfers'[Len(xfers')].finalListening
      /\ xfers'[Len(xfers')].phase = "none"
      /\ UNCHANGED <<cmds, wire, commandCount, lastCommand, dataSocket,
                     connected, authenticated>>

C26_EarlyTransferRejected == [][C26_Step]_vars

\* C26's case: a transfer called during the login, after USER was sent, was
\* rejected, and no PASV was written.
C26_Witness ==
  /\ connected
  /\ ~authenticated
  /\ wire = <<CmdUSER>>
  /\ \E t \in XferIds :
       xfers[t].outcome = "rejected" /\ xfers[t].err = "NotConnectedToServer"

\* -------------------------------------------------- deadline kept running
\* C27 (as claimed): a line that leaves a pending command pending (a
\* continuation line, or a 1xx reply heard by a command sent tolerant of
\* preliminary replies) leaves its listener registered and its deadline
\* running, so that the command can still fail with CommandTimeout.
C27_Step ==
  \A line \in ServerLines :
    DeliverLine(line) =>
      \A i \in CmdIds :
        (cmds[i].listening /\ cmds[i].timer /\ cmds'[i].state = "pending") =>
          /\ cmds'[i].listening
          /\ cmds'[i].timer

C27_DeadlineStaysInForce == [][C27_Step]_vars

\* ------------------------------------------------ transfers: data channel
\* C28: a transfer that has resolved has had its data channel closed,
\* whatever the control channel delivered and whenever.
C28_ResolvedAfterDataClosed ==
  \A t \in XferIds : xfers[t].outcome = "resolved" => xfers[t].phase = "closed"

\* and it resolves only in a step that finds the data channel closed already.
C28_Step ==
  \A t \in XferIds :
    (xfers[t].outcome = "pending" /\ xfers'[t].outcome = "resolved") =>
      xfers[t].phase = "closed"

C28_NoSuccessBeforeDataClosed ==
  []C28_ResolvedAfterDataClosed /\ [][C28_Step]_vars

\* C28's case: the final reply 226 arrived while the data channel was still
\* open, and the transfer (a download that received data) is pending.
C28_Witness ==
  \E t \in XferIds :
    /\ xfers[t].reply = 226
    /\ xfers[t].phase = "open"
    /\ xfers[t].chunks > 0
    /\ xfers[t].outcome = "pending"

\* C29: the transfer command reaches the control channel only in the connect
\* callback of the transfer's data socket, which exists only once the PASV
\* reply was received and parsed; no transfer writes it twice, and a transfer
\* whose data connection is established on a live control channel writes it.
IsTransferCommand(c) == c[1] \in {"STOR", "RETR", "LIST"}

TransferWrites == {i \in DOMAIN wire : IsTransferCommand(wire[i])}

PassiveSucceeded(x) ==
  /\ cmds[x.pasv].state = "resolved"
  /\ HasPasvGroup(cmds[x.pasv].message)

C29_WrittenOnce ==
  /\ \A t \in XferIds :
       xfers[t].wire # 0 =>
         /\ xfers[t].wire \in TransferWrites
         /\ wire[xfers[t].wire] = <<TransferVerb(xfers[t].op), "path">>
         /\ PassiveSucceeded(xfers[t])
         /\ xfers[t].commandSent
         /\ xfers[t].phase \notin {"none", "pasv", "connecting"}
  /\ \A i \in TransferWrites :
       Cardinality({t \in XferIds : xfers[t].wire = i}) = 1
  /\ \A t \in XferIds :
       (xfers[t].commandSent /\ connected) => xfers[t].wire # 0

C29_Step ==
  TransferWrites' # TransferWrites =>
    \E t \in XferIds :
      /\ xfers[t].phase = "connecting"
      /\ PassiveSucceeded(xfers[t])
      /\ xfers[t].wire = 0
      /\ ~xfers[t].commandSent
      /\ xfers'[t].phase = "open"
      /\ TransferWrites' = TransferWrites \cup {xfers'[t].wire}

C29_CommandAfterDataConnection == []C29_WrittenOnce /\ [][C29_Step]_vars

C29_Witness ==
  \E t \in XferIds :
    /\ xfers[t].wire # 0
    /\ xfers[t].phase = "closed"
    /\ xfers[t].outcome = "resolved"
    /\ Cardinality(TransferWrites) = 1

\* C30: a transfer that has settled, with success or with any failure, and
\* that had opened a data channel, has that data channel closed (a socket
\* that emitted 'error' has been destroyed and counts as closed).
DataChannelOpened(x) == x.phase \notin {"none", "pasv"}

DataChannelClosed(x) == x.phase \in {"closed", "errored"}

C30_SettledMeansDataClosed ==
  \A t \in XferIds :
    (xfers[t].outcome # "pending" /\ DataChannelOpened(xfers[t])) =>
      DataChannelClosed(xfers[t])

\* -------------------------------------------- control socket: who writes
\* C31: every command on the control socket was written by sendCommand: it
\* belongs to a sendCommand call, and the step that writes it registers that
\* call's listener and arms its deadline.
WrittenBySendCommand(i) ==
  \E c \in CmdIds : cmds[c].wire = i /\ cmds[c].command = wire[i]

C31_EveryWriteCorrelated ==
  \A i \in DOMAIN wire : WrittenBySendCommand(i)

C31_Step ==
  Len(wire') > Len(wire) =>
    /\ Len(cmds') = Len(cmds) + 1
    /\ cmds'[Len(cmds')].wire = Len(wire')
    /\ cmds'[Len(cmds')].listening
    /\ cmds'[Len(cmds')].timer

C31_OnlySendCommandWrites == []C31_EveryWriteCorrelated /\ [][C31_Step]_vars

\* ------------------------------------------------------------ the framer
\* C32: a chunk without a line terminator makes the 'data' handler emit no
\* line, unless the chunk starts with the LF of a terminator whose CR ends
\* the carry-over buffer.
NoTerminator(chunk) == FirstCRLF(chunk, 1) = 0

CompletesTerminator(carry, chunk) ==
  /\ carry # << >>
  /\ carry[Len(carry)] = CR
  /\ chunk[1] = LF

ChunkRead == incoming # << >> /\ incoming' = Tail(incoming)

\* As stated, for every carry-over buffer.
C32_NoTerminatorNoLineAnyCarry ==
  [][(ChunkRead /\ NoTerminator(Head(incoming))) => emitted' = emitted]_vars

C32_Step ==
  (/\ ChunkRead
   /\ NoTerminator(Head(incoming))
   /\ ~CompletesTerminator(buffer, Head(incoming))) => emitted' = emitted

C32_NoTerminatorNoLine == [][C32_Step]_vars

C32_Witness ==
  /\ incoming = << >>
  /\ buffer = replyBytes
  /\ buffer = <<"2", "3", "0", " ", CR>>
  /\ emitted = << >>

\* ------------------------------------------------- removeDir: every entry
\* C33: when a recursive removeDir writes the RMD of a directory, it has
\* written, for every entry the directory held, the DELE of that file's path
\* or, for a subdirectory, the commands of its recursive removal up to its
\* RMD.
Named(i) == ResolvePath(Root, Tail(wire[i]))

HandledBefore(e, i) ==
  \E j \in 1..(i - 1) :
    /\ wire[j][1] = (IF e \in removal.files THEN "DELE" ELSE "RMD")
    /\ Named(j) = e

C33_EveryEntryBeforeRmd ==
  removal.recursive =>
    \A i \in DOMAIN wire :
      wire[i][1] = "RMD" =>
        \A e \in removal.dirs \cup removal.files :
          (e # << >> /\ Front(e) = Named(i)) => HandledBefore(e, i)

\* C34: once the server has refused a PASV, a LIST or an RMD of a recursive
\* removeDir, or a data connection of it has failed, the call writes no
\* further DELE or RMD, the server's tree stays as it is, and the call, once
\* settled, has rejected.
PropagatingFailure ==
  /\ removal.recursive
  /\ \/ DataFailed
     \/ \E k \in ServerRefused : wire[k][1] \in {"PASV", "LIST", "RMD"}

C34_Step ==
  PropagatingFailure =>
    /\ \A i \in (Len(wire) + 1)..Len(wire') :
         wire'[i][1] \notin {"DELE", "RMD"}
    /\ server'.dirs = server.dirs
    /\ server'.files = server.files
    /\ removal'.state \in {"pending", "rejected"}

C34_NothingAfterPropagatingFailure == [][C34_Step]_vars

\* ------------------------------------------- ensureDir: working directory
\* C35: when an ensureDir call has resolved, the server's working directory
\* is the one the session was in when the call was made.
C35_WorkingDirectoryKept ==
  ensure.state = "resolved" => server.cwd = ensure.cwd

\* ----------------------------------------------------- the session flags
\* C36: the client is never authenticated without being connected.
C36_AuthenticatedImpliesConnected == authenticated => connected

\* C37: once close() has resolved, connected and authenticated are false,
\* however QUIT ended; close() on a client that is not connected leaves
\* everything as it is.
C37_Closed ==
  closing.state = "resolved" => (~connected /\ ~authenticated)

C37_Step ==
  (closing.state = "idle" /\ closing'.state # "idle" /\ ~connected) =>
    /\ closing'.state = "resolved"
    /\ closing'.ended = closing.ended
    /\ UNCHANGED <<connected, authenticated, wire, cmds, commandCount,
                   lastCommand, loops, connectState>>

C37_ClosedAfterClose == []C37_Closed /\ [][C37_Step]_vars

\* ------------------------------------------ transfers: the data connection
\* C38: the payload of an upload goes to the data connection its own
\* invocation opened, whatever other transfers are under way.
C38_PayloadOnOwnConnection ==
  \A t \in XferIds : xfers[t].payloadOn \in {0, t}

\* C10 (as claimed): every transfer that was started settles eventually.
C10_EveryTransferSettles ==
  \A t \in 1..MaxXfer :
    (t \in XferIds) ~> (t \in XferIds /\ xfers[t].outcome # "pending")

====
